---- MODULE Spec2Model ----
(***************************************************************************)
(* Model of the movimiento-inventario service: the command that turns a    *)
(* cold-chain failure event into a stock loss (cqrs/commands.py), the      *)
(* product creation command, and the part of the Kafka handler that calls  *)
(* the command and turns an exception into a failed outcome (handlers.py). *)
(*                                                                         *)
(* The two DynamoDB tables are modelled as key -> item maps.  put_item     *)
(* replaces the whole item stored under the key; get_item returns the item *)
(* or nothing.  Every store call is one atomic step, so that several       *)
(* handlers (one per service replica) interleave between their calls.      *)
(***************************************************************************)
EXTENDS Integers, Sequences, FiniteSets, TLC

\* ------------------------------------------------------------------ bounds
MaxRuns == 2        \* messages one handler processes in sequence
MaxCreates == 1     \* CreateProductCommand executions while handlers run

\* ------------------------------------------------------------------ inputs
Procs == {"w1", "w2"}
Products == {"p1", "p2"}
EventIds == {<<"e", 1>>, <<"e", 2>>}
Severities == {"low", "medium", "high", "critical", "unknown"}

\* Messages a handler receives: id, product and severity of the event.
Messages ==
    [id : {<<"e", 1>>}, product_id : {"p1"}, severity : Severities]
      \cup [id : {<<"e", 2>>}, product_id : {"p1"}, severity : {"high"}]
      \cup [id : {<<"e", 2>>}, product_id : {"p2"}, severity : {"critical"}]

\* Messages of the runs with two handlers: each handler of the consumer
\* group polls the messages of its own partition.
Partition ==
    [w1 |-> {[id |-> <<"e", 1>>, product_id |-> "p1", severity |-> "high"]},
     w2 |-> {[id |-> <<"e", 2>>, product_id |-> "p1", severity |-> "high"],
             [id |-> <<"e", 2>>, product_id |-> "p1",
              severity |-> "critical"]}]

\* Products the store can hold when a single handler starts
\* (current_stock >= 0).
NewProducts ==
    { [id |-> "p1", current_stock |-> 100, minimum_stock |-> 50],
      [id |-> "p1", current_stock |-> 40, minimum_stock |-> 50],
      [id |-> "p1", current_stock |-> 33, minimum_stock |-> 10],
      [id |-> "p1", current_stock |-> 19, minimum_stock |-> 0],
      [id |-> "p1", current_stock |-> 1, minimum_stock |-> 50],
      [id |-> "p1", current_stock |-> 0, minimum_stock |-> 50] }

\* Products handed to CreateProductCommand in the runs with two handlers.
ConcurrentProducts ==
    { [id |-> "p1", current_stock |-> 100, minimum_stock |-> 50],
      [id |-> "p1", current_stock |-> 40, minimum_stock |-> 50],
      [id |-> "p1", current_stock |-> 20, minimum_stock |-> 50] }

\* ----------------------------------------------------------------- helpers
\* dict.get(attr, default) on a stored item
ItemGet(item, attr, default) ==
    IF attr \in DOMAIN item THEN item[attr] ELSE default

\* put_item: the item replaces whatever is stored under the key
PutItem(table, key, item) ==
    [k \in (DOMAIN table) \cup {key} |-> IF k = key THEN item ELSE table[k]]

\* current_stock stored for a product, 0 when there is none
StockOf(table, product_id) ==
    IF product_id \in DOMAIN table
    THEN ItemGet(table[product_id], "current_stock", 0)
    ELSE 0

Max(a, b) == IF a >= b THEN a ELSE b

\* uuid4(): the k-th identifier generated by one process
Uuid(k) == <<"u", k>>
UuidOf(who, k) == <<who, k>>

\* variant: a critical failure loses the whole stock
severity_multipliers_all_lost ==
    [low |-> 5, medium |-> 15, high |-> 30, critical |-> 100]

\* severity_multipliers, in hundredths; .get(severity, 0.10)
severity_multipliers ==
    [low |-> 5, medium |-> 15, high |-> 30, critical |-> 50]

Multiplier(severity) ==
    IF severity \in DOMAIN severity_multipliers
    THEN severity_multipliers[severity]
    ELSE 10

\* variant: the product is rounded up instead of truncated
LossQuantityRoundedUp(current_stock, severity) ==
    (current_stock * Multiplier(severity) + 99) \div 100

\* int(current_stock * multiplier) for current_stock >= 0: on the stocks of
\* the model the float product truncates to the exact quotient.
LossQuantity(current_stock, severity) ==
    (current_stock * Multiplier(severity)) \div 100

NoAdjustment == [present |-> FALSE, quantity |-> 0, multiplier |-> 0]

\* variant: a loss of zero still counts as an adjustment
StockAdjustmentZeroLoss(table, product_id, severity) ==
    IF product_id \in DOMAIN table
    THEN [present |-> TRUE,
          quantity |-> LossQuantity(StockOf(table, product_id), severity),
          multiplier |-> Multiplier(severity)]
    ELSE NoAdjustment

\* _calculate_stock_adjustment, given the get_item response
StockAdjustment(table, product_id, severity) ==
    IF product_id \in DOMAIN table
    THEN LET current_stock == ItemGet(table[product_id], "current_stock", 0)
             loss_quantity == LossQuantity(current_stock, severity)
         IN  IF loss_quantity > 0
             THEN [present |-> TRUE, quantity |-> loss_quantity,
                   multiplier |-> Multiplier(severity)]
             ELSE NoAdjustment
    ELSE NoAdjustment

\* variant: the decrement is not clamped at zero
NewStockUnclamped(current_stock, quantity) == current_stock - quantity

\* new_stock of _update_product_stock
NewStock(current_stock, quantity) == Max(0, current_stock - quantity)

\* _is_stock_low, given the get_item response
IsStockLow(table, product_id) ==
    IF product_id \in DOMAIN table
    THEN ItemGet(table[product_id], "current_stock", 0)
           <= ItemGet(table[product_id], "minimum_stock", 0)
    ELSE FALSE

\* variant: the half-of-minimum test comes before the zero test
UrgencyLevelHighFirst(current_stock, minimum_stock) ==
    IF 2 * current_stock <= minimum_stock THEN "high"
    ELSE IF current_stock = 0 THEN "critical"
    ELSE IF current_stock <= minimum_stock THEN "medium"
    ELSE "low"

\* urgency level of _create_stock_low_event (minimum_stock * 0.5 compared
\* with an integer stock: current_stock <= m/2 iff 2*current_stock <= m)
UrgencyLevel(current_stock, minimum_stock) ==
    IF current_stock = 0 THEN "critical"
    ELSE IF 2 * current_stock <= minimum_stock THEN "high"
    ELSE IF current_stock <= minimum_stock THEN "medium"
    ELSE "low"

NoAlert ==
    [present |-> FALSE, id |-> Uuid(0), product_id |-> "", current_stock |-> 0,
     minimum_stock |-> 0, urgency_level |-> "", last_movement_id |-> Uuid(0),
     cold_chain_failure_id |-> Uuid(0), fallback |-> FALSE]

\* the fallback StockLowEvent at the end of _create_stock_low_event
FallbackAlert(id, product_id) ==
    [present |-> TRUE, id |-> id, product_id |-> product_id,
     current_stock |-> 0, minimum_stock |-> 0, urgency_level |-> "critical",
     last_movement_id |-> Uuid(0), cold_chain_failure_id |-> Uuid(0),
     fallback |-> TRUE]

\* _create_stock_low_event, given the get_item response
StockLowEvent(table, id, movement, event) ==
    IF movement.product_id \in DOMAIN table
    THEN LET item == table[movement.product_id]
             current_stock == ItemGet(item, "current_stock", 0)
             minimum_stock == ItemGet(item, "minimum_stock", 0)
         IN  [present |-> TRUE, id |-> id, product_id |-> movement.product_id,
              current_stock |-> current_stock,
              minimum_stock |-> minimum_stock,
              urgency_level |-> UrgencyLevel(current_stock, minimum_stock),
              last_movement_id |-> movement.id,
              cold_chain_failure_id |-> event.id, fallback |-> FALSE]
    ELSE FallbackAlert(id, movement.product_id)

\* variant: the movement is built whether or not an adjustment was computed
NeedsAdjustmentAlways(stock_adjustment) == TRUE

\* "if stock_adjustment:" in execute()
NeedsAdjustment(stock_adjustment) == stock_adjustment.present

NoMovement ==
    [present |-> FALSE, id |-> Uuid(0), product_id |-> "", quantity |-> 0,
     failure_event_id |-> Uuid(0), severity |-> ""]

\* variant: the movement takes the id of the failure event
InventoryMovementKeyedByEvent(id, event, stock_adjustment) ==
    [present |-> TRUE, id |-> event.id, product_id |-> event.product_id,
     quantity |-> stock_adjustment.quantity,
     failure_event_id |-> event.id, severity |-> event.severity]

\* InventoryMovement(...) built in execute(); its id is a fresh uuid
InventoryMovement(id, event, stock_adjustment) ==
    [present |-> TRUE, id |-> id, product_id |-> event.product_id,
     quantity |-> stock_adjustment.quantity,
     failure_event_id |-> event.id, severity |-> event.severity]

\* datetime.isoformat(): the text of the datetime as a sequence of its
\* parts; the microseconds are left out when they are zero
isoformat(t) ==
    IF t.micro = 0 THEN <<t.sec>> ELSE <<t.sec, t.micro>>

\* the timestamp a failure event carries: the event numbered k happened
\* at the time k
EventTime(event) == [sec |-> event.id[2], micro |-> 0]

\* the item _store_event writes to the events table
EventRecord(event) ==
    [id |-> event.id, timestamp |-> isoformat(EventTime(event)),
     event_type |-> "FallaCadenaFrio",
     product_id |-> event.product_id, severity |-> event.severity]

\* the item _store_inventory_movement writes to the events table
MovementRecord(movement) ==
    [id |-> movement.id, product_id |-> movement.product_id,
     movement_type |-> "loss", quantity |-> movement.quantity,
     failure_event_id |-> movement.failure_event_id,
     severity |-> movement.severity]

\* the item _update_product_stock writes to the read table
StockItem(movement, new_stock) ==
    [id |-> movement.product_id, product_name |-> movement.product_id,
     current_stock |-> new_stock, last_movement_id |-> movement.id,
     last_movement_type |-> "loss",
     last_movement_quantity |-> movement.quantity]

\* the item CreateProductCommand writes to the read table
ProductItem(product) ==
    [id |-> product.id, name |-> product.id,
     current_stock |-> product.current_stock,
     minimum_stock |-> product.minimum_stock]

\* the ProductCreated item CreateProductCommand writes to the events table
ProductCreatedRecord(id, product) ==
    [id |-> id, event_type |-> "ProductCreated", aggregate_id |-> product.id]

NoEvent == [id |-> Uuid(0), product_id |-> "", severity |-> ""]

NoLocal ==
    [stock_adjustment |-> NoAdjustment, movement |-> NoMovement,
     current_stock |-> 0]

NoResult ==
    [success |-> FALSE, stock_adjustment |-> NoAdjustment,
     stock_low_event |-> NoAlert, error |-> "", correlation_id |-> Uuid(0)]

\* the dictionaries execute() returns
SuccessResult(event, stock_adjustment, stock_low_event) ==
    [success |-> TRUE, stock_adjustment |-> stock_adjustment,
     stock_low_event |-> stock_low_event, error |-> "",
     correlation_id |-> event.id]

\* the dictionary _process_cold_chain_failure returns on an exception
FailedResult(event, error) ==
    [success |-> FALSE, stock_adjustment |-> NoAdjustment,
     stock_low_event |-> NoAlert, error |-> error,
     correlation_id |-> event.id]

\* bookkeeping of one execution, for stating the properties: what the
\* adjustment read saw, what the execution wrote, and who else wrote the
\* projection of its product while it ran
NoTrace ==
    [calc |-> "none", calc_stock |-> 0, calc_minimum |-> 0,
     calc_configured |-> FALSE, wrote |-> FALSE, appended |-> 0,
     event_puts |-> 0, event_stored |-> FALSE, reads_before_event |-> 0,
     failed_at |-> "", by_creator |-> FALSE, by_proc |-> FALSE]

\* ------------------------------------------------- the Kafka pipeline
\* polls of one run of start_consuming
MaxPolls == 2

\* the handler whose command the consumer thread of this process executes
Worker == "w1"

\* the product the pipeline runs start from
PipelineProducts ==
    { [id |-> "p1", current_stock |-> 40, minimum_stock |-> 50] }

\* what the value of an inbound message can be: a FallaCadenaFrio event,
\* text that is not JSON, JSON that is not a ColdChainFailureEvent, bytes
\* that are not UTF-8
MalformedPayloads == {"not_json", "invalid", "not_utf8"}

NoMsg ==
    [offset |-> 0, payload |-> "", event |-> NoEvent, correlation |-> "",
     causation |-> ""]

\* the messages of the input topic: value, and the correlation-id and
\* causation-id headers ("" when the message carries none)
InboundMessages ==
    { [offset |-> 0, payload |-> "event",
       event |-> [id |-> <<"e", 1>>, product_id |-> "p1",
                  severity |-> "critical"],
       correlation |-> "c1", causation |-> "k1"],
      [offset |-> 0, payload |-> "event",
       event |-> [id |-> <<"e", 2>>, product_id |-> "p1",
                  severity |-> "high"],
       correlation |-> "", causation |-> ""],
      [offset |-> 0, payload |-> "not_json", event |-> NoEvent,
       correlation |-> "c2", causation |-> ""],
      [offset |-> 0, payload |-> "invalid", event |-> NoEvent,
       correlation |-> "c2", causation |-> ""],
      [offset |-> 0, payload |-> "not_utf8", event |-> NoEvent,
       correlation |-> "c2", causation |-> ""] }

\* the error messages poll() can return
PollErrors == {"partition_eof", "broker_error"}

\* CorrelationContext.__init__; None is written ""
NoCorrelation == [correlation_id |-> "", causation_id |-> ""]

\* set_correlation_id and set_causation_id, as _process_message calls them
SetCorrelation(m) ==
    [correlation_id |-> m.correlation, causation_id |-> m.causation]

\* metrics_collector.record_error: the error is counted under its kind
record_error(kind) == [counter |-> "errors", kind |-> kind]

\* metrics_collector.record_event_processed
record_event_processed(success) ==
    [counter |-> "events_processed", kind |-> IF success THEN "ok" ELSE "failed"]

NoMetric == [counter |-> "", kind |-> ""]

\* the Python types of the values of stock_low_event.dict(): the timestamp
\* of the pydantic model stays a datetime object
StockLowEventDictTypes ==
    [id |-> "str", timestamp |-> "datetime", event_type |-> "str",
     product_id |-> "str", product_name |-> "str", current_stock |-> "int",
     minimum_stock |-> "int", location |-> "str", urgency_level |-> "str",
     metadata |-> "dict"]

\* the types json.dumps encodes; any other raises TypeError
JsonTypes == {"str", "int", "float", "bool", "NoneType", "dict", "list"}

\* json.dumps(stock_low_event) returns instead of raising
JsonDumps(types) == \A k \in DOMAIN types : types[k] \in JsonTypes

\* the message _produce_stock_low_event hands to the producer; cause is
\* the offset of the inbound message being handled (bookkeeping)
OutboundMessage(alert, context, cause) ==
    [key |-> alert.product_id,
     value |-> alert.id,
     headers |-> ("correlation-id" :> context.correlation_id)
                 @@ ("causation-id" :> alert.id)
                 @@ ("event-type" :> "StockBajo")
                 @@ ("content-type" :> "application/json"),
     cause |-> cause]

\* one line of the log together with the metric recorded with it
LogEntry(inbound, state, metric, success, alert, produce) ==
    [offset |-> inbound.offset, correlation_id |-> inbound.correlation,
     state |-> state, metric |-> metric, success |-> success,
     alert |-> alert, produce |-> produce]

\* GetStockLowEventsQuery.execute: the scan of the events table filtered
\* on event_type = StockBajo and on the product id
GetStockLowEvents(table, product_id) ==
    { table[k] : k \in { x \in DOMAIN table :
                            /\ ItemGet(table[x], "event_type", "") = "StockBajo"
                            /\ ItemGet(table[x], "product_id", "") = product_id } }

\* ---------------------------------------------------------------------
\* The Query Service (cqrs/queries.py).  A table is the sequence of its
\* items in the order a scan returns them.
\* ---------------------------------------------------------------------

\* the largest table the queries are run on
MaxItems == 3

\* limit: int = 100, the default of every list query
DefaultLimit == 100

\* limit=1000, the limit GetProductStockHistoryQuery passes on
HistoryLimit == 1000

\* an optional argument left at its default None
None == "None"

\* an optional datetime argument left at its default None
NoDate == [sec |-> 0, micro |-> 0]

\* a naive datetime: whole units and the microseconds within the unit
Times == { [sec |-> 1, micro |-> 0], [sec |-> 2, micro |-> 0],
           [sec |-> 2, micro |-> 5], [sec |-> 3, micro |-> 0] }

\* a < b on strings: the first differing part decides, a proper prefix
\* is smaller
StrLess(a, b) ==
    \E i \in 1..Len(b) :
        /\ \A j \in 1..(i - 1) : j <= Len(a) /\ a[j] = b[j]
        /\ (i > Len(a) \/ a[i] < b[i])

\* a <= b on strings
StrLeq(a, b) == a = b \/ StrLess(a, b)

\* datetime - timedelta(days): the units of the model are days
MinusDays(t, days) == [sec |-> t.sec - days, micro |-> t.micro]

\* the items the events table can hold: movements of every type, as
\* the replay of the stock history reads them, and a failure event
StoredEventItems ==
    { [id |-> "m1", product_id |-> "p1", movement_type |-> "in",
       quantity |-> 50, timestamp |-> isoformat([sec |-> 1, micro |-> 0])],
      [id |-> "m2", product_id |-> "p1", movement_type |-> "out",
       quantity |-> 20, timestamp |-> isoformat([sec |-> 2, micro |-> 0])],
      [id |-> "m3", product_id |-> "p1", movement_type |-> "adjustment",
       quantity |-> 10, timestamp |-> isoformat([sec |-> 3, micro |-> 0])],
      [id |-> "m4", product_id |-> "p1", movement_type |-> "loss",
       quantity |-> 5, timestamp |-> isoformat([sec |-> 2, micro |-> 5])],
      [id |-> "m5", product_id |-> "p2", movement_type |-> "in",
       quantity |-> 7, timestamp |-> isoformat([sec |-> 1, micro |-> 0])],
      [id |-> "f1", event_type |-> "FallaCadenaFrio", product_id |-> "p1",
       severity |-> "high",
       timestamp |-> isoformat([sec |-> 2, micro |-> 0])] }

\* the items the read table can hold: products as CreateProductCommand
\* writes them (with minimum_stock and location) and as
\* _update_product_stock rewrites them (without)
StoredProductItems ==
    { [id |-> "p1", product_name |-> "p1", current_stock |-> 40,
       minimum_stock |-> 50, location |-> "A"],
      [id |-> "p2", product_name |-> "p2", current_stock |-> 100,
       minimum_stock |-> 50, location |-> "B"],
      [id |-> "p3", product_name |-> "p3", current_stock |-> 0] }

\* the tables of at most n items over a set of items, in every order
TablesOver(items, n) ==
    { t \in UNION { [1..k -> items] : k \in 0..n } :
        \A i, j \in 1..Len(t) : i # j => t[i].id # t[j].id }

\* Limit: the items a scan or an index query evaluates, before the
\* filter expression is applied to them
Evaluated(items, limit) ==
    SubSeq(items, 1, IF limit < Len(items) THEN limit ELSE Len(items))

\* item.get("timestamp", "")
TimestampOf(item) == ItemGet(item, "timestamp", <<>>)

\* list.sort(key=lambda x: x.get("timestamp", "")): stable, ascending
RECURSIVE SortByTimestamp(_)
SortByTimestamp(movements) ==
    IF movements = <<>> THEN <<>>
    ELSE LET head == Head(movements)
             rest == SortByTimestamp(Tail(movements))
             k == Cardinality({ i \in 1..Len(rest) :
                      StrLess(TimestampOf(rest[i]), TimestampOf(head)) })
         IN  SubSeq(rest, 1, k) \o <<head>> \o SubSeq(rest, k + 1, Len(rest))

\* the sequence in the opposite order
Reverse(s) == [i \in 1..Len(s) |-> s[Len(s) + 1 - i]]

\* the index product-timestamp-index read in ascending order
IndexAscending(items, product_id) ==
    SortByTimestamp(SelectSeq(items, LAMBDA x :
        /\ "product_id" \in DOMAIN x
        /\ "timestamp" \in DOMAIN x
        /\ x.product_id = product_id))

\* the index product-timestamp-index under the key condition
\* product_id = :product_id with ScanIndexForward False: the items of
\* the product that carry a timestamp, most recent first
IndexQuery(items, product_id) ==
    Reverse(IndexAscending(items, product_id))

\* #timestamp > :start_date
FromStartExclusive(item, start_date) ==
    \/ start_date = NoDate
    \/ /\ "timestamp" \in DOMAIN item
       /\ StrLess(isoformat(start_date), item.timestamp)

\* #timestamp >= :start_date, a condition only when start_date is given
FromStart(item, start_date) ==
    \/ start_date = NoDate
    \/ /\ "timestamp" \in DOMAIN item
       /\ StrLeq(isoformat(start_date), item.timestamp)

\* #timestamp < :end_date
UntilEndExclusive(item, end_date) ==
    \/ end_date = NoDate
    \/ /\ "timestamp" \in DOMAIN item
       /\ StrLess(item.timestamp, isoformat(end_date))

\* #timestamp <= :end_date, a condition only when end_date is given
UntilEnd(item, end_date) ==
    \/ end_date = NoDate
    \/ /\ "timestamp" \in DOMAIN item
       /\ StrLeq(item.timestamp, isoformat(end_date))

\* #attr = :value, a condition only when the value is given; an item
\* without the attribute does not match
AttrIs(item, attr, value) ==
    \/ value = None
    \/ /\ attr \in DOMAIN item
       /\ item[attr] = value

\* no query executed yet
NoCall == [query |-> "none"]

\* no result yet
NoQueryResult == [success |-> FALSE, error |-> "none"]

\* the except branch of every execute: the structured failure
QueryFailure(error, list) ==
    [success |-> FALSE, error |-> error, items |-> <<>>, list |-> list]

\* GetProductQuery.execute
GetProduct(items, product_id) ==
    LET found == SelectSeq(items, LAMBDA x : x.id = product_id)
    IN  IF found # <<>>
        THEN [success |-> TRUE, product |-> found[1]]
        ELSE [success |-> FALSE, error |-> "Product not found",
              product_id |-> product_id]

\* p.get("current_stock", 0) <= p.get("minimum_stock", 0)
LowStock(p) ==
    ItemGet(p, "current_stock", 0) <= ItemGet(p, "minimum_stock", 0)

\* #current_stock <= #minimum_stock in the filter expression: false
\* for an item that lacks one of the two attributes
LowStockFilter(p) ==
    /\ "current_stock" \in DOMAIN p
    /\ "minimum_stock" \in DOMAIN p
    /\ p.current_stock <= p.minimum_stock

\* ListProductsQuery.execute: the scan with Limit and the filter
\* expression, then the list comprehension on the items returned
ListProducts(items, location, low_stock_only, limit) ==
    LET scanned == SelectSeq(Evaluated(items, limit), LAMBDA p :
                       /\ AttrIs(p, "location", location)
                       /\ (low_stock_only => LowStockFilter(p)))
        products == IF low_stock_only
                    THEN SelectSeq(scanned, LowStock)
                    ELSE scanned
    IN  [success |-> TRUE, items |-> products, list |-> "products",
         count |-> Len(products)]

\* GetInventoryMovementsQuery.execute: the index query with Limit and
\* the filter on the dates and the movement type
GetInventoryMovements(items, product_id, start_date, end_date, movement_type, limit) ==
    LET movements ==
            SelectSeq(Evaluated(IndexQuery(items, product_id), limit),
                LAMBDA x : /\ FromStart(x, start_date)
                           /\ UntilEnd(x, end_date)
                           /\ AttrIs(x, "movement_type", movement_type))
    IN  [success |-> TRUE, items |-> movements, list |-> "movements",
         count |-> Len(movements)]

\* GetColdChainFailuresQuery.execute: the scan with Limit filtered on
\* event_type = FallaCadenaFrio and the optional arguments
GetColdChainFailures(items, product_id, severity, start_date, end_date, limit) ==
    LET failures ==
            SelectSeq(Evaluated(items, limit),
                LAMBDA x : /\ AttrIs(x, "event_type", "FallaCadenaFrio")
                           /\ AttrIs(x, "product_id", product_id)
                           /\ AttrIs(x, "severity", severity)
                           /\ FromStart(x, start_date)
                           /\ UntilEnd(x, end_date))
    IN  [success |-> TRUE, items |-> failures, list |-> "failures",
         count |-> Len(failures)]

\* GetStockLowEventsQuery.execute with all its arguments: the scan with
\* Limit filtered on event_type = StockBajo and the optional arguments
GetStockLowEventsFiltered(items, product_id, urgency_level, start_date, end_date, limit) ==
    LET events ==
            SelectSeq(Evaluated(items, limit),
                LAMBDA x : /\ AttrIs(x, "event_type", "StockBajo")
                           /\ AttrIs(x, "product_id", product_id)
                           /\ AttrIs(x, "urgency_level", urgency_level)
                           /\ FromStart(x, start_date)
                           /\ UntilEnd(x, end_date))
    IN  [success |-> TRUE, items |-> events, list |-> "events",
         count |-> Len(events)]

\* the names bound in GetProductStockHistoryQuery.execute when the
\* arguments of the movements query are evaluated: the locals assigned
\* so far and the globals of the module
NamesInScope ==
    { "self", "end_date", "start_date",
      "ABC", "abstractmethod", "List", "Dict", "Any", "Optional",
      "datetime", "timedelta", "structlog", "Product", "InventoryMovement",
      "ColdChainFailureEvent", "StockLowEvent", "logger", "Query",
      "GetProductQuery", "ListProductsQuery", "GetInventoryMovementsQuery",
      "GetColdChainFailuresQuery", "GetStockLowEventsQuery",
      "GetProductStockHistoryQuery" }

\* the names the call of GetInventoryMovementsQuery reads as its
\* arguments
ArgumentNames == { "product_id", "dynamodb_client", "start_date", "end_date" }

\* the balance after one movement of the replay
Applied(current_stock, movement) ==
    LET movement_type == ItemGet(movement, "movement_type", "")
        quantity == ItemGet(movement, "quantity", 0)
    IN  CASE movement_type = "in" -> current_stock + quantity
          [] movement_type \in {"out", "loss"} -> current_stock - quantity
          [] movement_type = "adjustment" -> quantity
          [] OTHER -> current_stock

\* the loop over the sorted movements: the entries appended to
\* stock_history, from the balance current_stock
RECURSIVE StockHistory(_, _)
StockHistory(movements, current_stock) ==
    IF movements = <<>> THEN <<>>
    ELSE LET stock == Applied(current_stock, Head(movements))
         IN  <<[timestamp |-> TimestampOf(Head(movements)),
                stock |-> stock,
                movement_type |-> ItemGet(Head(movements), "movement_type", ""),
                quantity |-> ItemGet(Head(movements), "quantity", 0)]>>
             \o StockHistory(Tail(movements), stock)

\* the replay of the movements query's result: sorted by timestamp,
\* replayed from the balance 0
Replay(movements, days) ==
    LET stock_history == StockHistory(SortByTimestamp(movements), 0)
    IN  [success |-> TRUE, items |-> stock_history, list |-> "stock_history",
         current_stock |-> IF stock_history = <<>> THEN 0
                           ELSE stock_history[Len(stock_history)].stock,
         period_days |-> days]

\* GetProductStockHistoryQuery.execute: the arguments of the movements
\* query are evaluated first, and a name that is not bound raises
\* NameError into the except branch; otherwise the movements of the
\* window are replayed
GetProductStockHistory(items, product_id, days, now) ==
    IF ~(ArgumentNames \subseteq NamesInScope)
    THEN QueryFailure("NameError", "stock_history")
    ELSE Replay(GetInventoryMovements(items, product_id,
                    MinusDays(now, days), now, None, HistoryLimit).items,
                days)

VARIABLES
    readStore,     \* table movimiento-inventario-read: product id -> item
    eventStore,    \* table movimiento-inventario-events: id -> item
    pc,            \* per handler: position inside _process_cold_chain_failure
    event,         \* per handler: the ColdChainFailureEvent being processed
    local,         \* per handler: stock_adjustment, movement, current_stock
    result,        \* per handler: the outcome of the last finished execution
    cpc,           \* position of the CreateProductCommand in progress
    cproduct,      \* the product it creates
    cresult,       \* outcome of the last CreateProductCommand
    uuids,         \* identifiers generated so far
    runs,          \* per handler: messages received so far
    creates,       \* CreateProductCommand executions started so far
    trace,         \* per handler: bookkeeping of the current execution
    writers,       \* per product: stock writes since the product was created
    created,       \* per product: current_stock it was last created with
    loop,          \* position of the consumer thread inside start_consuming
    running,       \* KafkaHandler.running
    consumer,      \* the Kafka consumer: open or closed
    position,      \* inbound messages poll() has handed over so far
    committed,     \* offset committed to the broker for the consumer group
    message,       \* the inbound message _process_message is handling
    correlation_context, \* the module-level CorrelationContext object
    outbox,        \* messages handed to the producer
    flushed,       \* how many of them a flush() has waited for
    log,           \* what was logged and metered, per poll outcome
    stop,          \* position of the thread calling stop_consuming from outside the loop
    polls,         \* poll() calls so far
    qread,         \* the read table as a scan returns it, for the queries
    qevents,       \* the events table as a scan returns it, for the queries
    qcall,         \* the query executed last and its arguments
    qresult,       \* the dictionary it returned
    kafka_handler,   \* the global kafka_handler of main.py
    main_pc,         \* where main() is
    consumer_thread  \* where the thread of start_kafka_consumer is

pipeVars ==
    <<loop, running, consumer, position, committed, message,
      correlation_context,
      outbox, flushed, log, stop, polls>>

queryVars == <<qread, qevents, qcall, qresult>>

startVars == <<kafka_handler, main_pc, consumer_thread>>

vars ==
    <<readStore, eventStore, pc, event, local, result, cpc, cproduct, cresult,
      uuids, runs, creates, trace, writers, created, pipeVars, queryVars,
      startVars>>

procVars == <<pc, event, local, result, trace>>
createVars == <<cpc, cproduct, cresult>>

NoProduct == [id |-> "", current_stock |-> 0, minimum_stock |-> 0]

\* the service has started: initialize_services has built the handler
\* and the consumer thread is in start_consuming
Started ==
    /\ kafka_handler = "KafkaHandler"
    /\ main_pc = "serving"
    /\ consumer_thread = "consuming"

\* no query was executed
NoQuery ==
    /\ qread = <<>>
    /\ qevents = <<>>
    /\ qcall = NoCall
    /\ qresult = NoQueryResult

\* KafkaHandler.__init__: the consumer is subscribed, the producer created,
\* running is False; nothing was polled or published
KafkaHandlerInit ==
    /\ loop = "start"
    /\ running = FALSE
    /\ consumer = "open"
    /\ position = 0
    /\ committed = 0
    /\ message = NoMsg
    /\ correlation_context = NoCorrelation
    /\ outbox = <<>>
    /\ flushed = 0
    /\ log = <<>>
    /\ stop = "none"
    /\ polls = 0

\* The tables when the handlers start: empty, or holding one product that a
\* CreateProductCommand created earlier, with its ProductCreated event.
InitCommands(products) ==
    /\ \/ /\ readStore = <<>>
          /\ eventStore = <<>>
          /\ created = [x \in Products |-> -1]
       \/ \E product \in products :
             /\ readStore = PutItem(<<>>, product.id, ProductItem(product))
             /\ eventStore =
                  PutItem(<<>>, UuidOf("creator", 0),
                          ProductCreatedRecord(UuidOf("creator", 0), product))
             /\ created = [x \in Products |->
                             IF x = product.id THEN product.current_stock
                             ELSE -1]
    /\ pc = [p \in Procs |-> "idle"]
    /\ event = [p \in Procs |-> NoEvent]
    /\ local = [p \in Procs |-> NoLocal]
    /\ result = [p \in Procs |-> NoResult]
    /\ cpc = "idle"
    /\ cproduct = NoProduct
    /\ cresult = "none"
    /\ uuids = [w \in Procs \cup {"creator"} |-> 0]
    /\ runs = [p \in Procs |-> 0]
    /\ creates = 0
    /\ trace = [p \in Procs |-> NoTrace]
    /\ writers = [x \in Products |-> <<>>]
    /\ KafkaHandlerInit

\* the state after construction, no query executed
InitOver(products) ==
    /\ InitCommands(products)
    /\ NoQuery
    /\ Started

Init == InitOver(ConcurrentProducts)

InitSingle == InitOver(NewProducts)

InFlight(q) == pc[q] \notin {"idle", "returned"}

\* trace after handler p wrote the projection of product_id
MarkByProc(p, product_id, own) ==
    [q \in Procs |->
        IF q = p THEN own
        ELSE IF InFlight(q) /\ event[q].product_id = product_id
             THEN [trace[q] EXCEPT !.by_proc = TRUE]
             ELSE trace[q]]

\* trace after CreateProductCommand wrote the projection of product_id
MarkByCreator(product_id) ==
    [q \in Procs |->
        IF InFlight(q) /\ event[q].product_id = product_id
        THEN [trace[q] EXCEPT !.by_creator = TRUE]
        ELSE trace[q]]

\* the exception leaves execute() and _process_cold_chain_failure returns
\* the failed outcome
Raise(p, where) ==
    /\ pc' = [pc EXCEPT ![p] = "returned"]
    /\ result' = [result EXCEPT ![p] = FailedResult(event[p], where)]
    /\ trace' = [trace EXCEPT ![p].failed_at = where]

\* _process_message: the first message of a handler was polled and parsed;
\* the command starts
Receive(p, msg) ==
    /\ pc[p] = "idle"
    /\ runs' = [runs EXCEPT ![p] = 1]
    /\ pc' = [pc EXCEPT ![p] = "store_event"]
    /\ event' = [event EXCEPT ![p] = msg]
    /\ local' = [local EXCEPT ![p] = NoLocal]
    /\ result' = [result EXCEPT ![p] = NoResult]
    /\ trace' = [trace EXCEPT ![p] = NoTrace]
    /\ UNCHANGED <<readStore, eventStore, createVars, uuids, creates,
                   writers, created>>
    /\ UNCHANGED pipeVars
    /\ UNCHANGED queryVars
    /\ UNCHANGED startVars

\* start_consuming / _process_message: the loop polls the next message after
\* the previous one was handled
ReceiveNext(p, msg) ==
    /\ pc[p] = "returned"
    /\ runs[p] < MaxRuns
    /\ runs' = [runs EXCEPT ![p] = @ + 1]
    /\ pc' = [pc EXCEPT ![p] = "store_event"]
    /\ event' = [event EXCEPT ![p] = msg]
    /\ local' = [local EXCEPT ![p] = NoLocal]
    /\ result' = [result EXCEPT ![p] = NoResult]
    /\ trace' = [trace EXCEPT ![p] = NoTrace]
    /\ UNCHANGED <<readStore, eventStore, createVars, uuids, creates,
                   writers, created>>
    /\ UNCHANGED pipeVars
    /\ UNCHANGED queryVars
    /\ UNCHANGED startVars

\* _store_event: put_item of the failure event
StoreEvent(p) ==
    /\ pc[p] = "store_event"
    /\ eventStore' = PutItem(eventStore, event[p].id, EventRecord(event[p]))
    /\ pc' = [pc EXCEPT ![p] = "calc"]
    /\ trace' = [trace EXCEPT ![p].event_puts = @ + 1,
                              ![p].event_stored = TRUE]
    /\ UNCHANGED <<readStore, event, local, result, createVars, uuids, runs,
                   creates, writers, created>>
    /\ UNCHANGED pipeVars
    /\ UNCHANGED queryVars
    /\ UNCHANGED startVars

\* variant: _store_event logs the exception and execute() goes on
StoreEventFailsSwallowed(p) ==
    /\ pc[p] = "store_event"
    /\ pc' = [pc EXCEPT ![p] = "calc"]
    /\ trace' = [trace EXCEPT ![p].event_puts = @ + 1]
    /\ UNCHANGED <<readStore, eventStore, event, local, result, createVars,
                   uuids, runs, creates, writers, created>>
    /\ UNCHANGED pipeVars
    /\ UNCHANGED queryVars
    /\ UNCHANGED startVars

\* _store_event: put_item raises
StoreEventFails(p) ==
    /\ pc[p] = "store_event"
    /\ pc' = [pc EXCEPT ![p] = "returned"]
    /\ result' = [result EXCEPT ![p] = FailedResult(event[p], "store_event")]
    /\ trace' = [trace EXCEPT ![p].event_puts = @ + 1,
                              ![p].failed_at = "store_event"]
    /\ UNCHANGED <<readStore, eventStore, event, local, createVars, uuids,
                   runs, creates, writers, created>>
    /\ UNCHANGED pipeVars
    /\ UNCHANGED queryVars
    /\ UNCHANGED startVars

\* _calculate_stock_adjustment: get_item, then the movement is built when an
\* adjustment was computed, else execute() returns the empty success
CalculateStockAdjustment(p) ==
    /\ pc[p] = "calc"
    /\ LET adj == StockAdjustment(readStore, event[p].product_id,
                                  event[p].severity)
           found == event[p].product_id \in DOMAIN readStore
           item == IF found THEN readStore[event[p].product_id] ELSE <<>>
           seen == [trace[p] EXCEPT
                       !.calc = IF found THEN "found" ELSE "absent",
                       !.calc_stock = ItemGet(item, "current_stock", 0),
                       !.calc_minimum = ItemGet(item, "minimum_stock", 0),
                       !.calc_configured = "minimum_stock" \in DOMAIN item,
                       !.reads_before_event =
                           IF trace[p].event_stored THEN @ ELSE @ + 1]
       IN  /\ trace' = [trace EXCEPT ![p] = seen]
           /\ IF NeedsAdjustment(adj)
              THEN /\ local' = [local EXCEPT
                                  ![p].stock_adjustment = adj,
                                  ![p].movement =
                                      InventoryMovement(UuidOf(p, uuids[p] + 1),
                                                        event[p], adj)]
                   /\ uuids' = [uuids EXCEPT ![p] = @ + 1]
                   /\ pc' = [pc EXCEPT ![p] = "store_movement"]
                   /\ UNCHANGED result
              ELSE /\ pc' = [pc EXCEPT ![p] = "returned"]
                   /\ result' = [result EXCEPT ![p] =
                                   SuccessResult(event[p], NoAdjustment,
                                                 NoAlert)]
                   /\ UNCHANGED <<local, uuids>>
    /\ UNCHANGED <<readStore, eventStore, event, createVars, runs, creates, writers, created>>
    /\ UNCHANGED pipeVars
    /\ UNCHANGED queryVars
    /\ UNCHANGED startVars

\* _calculate_stock_adjustment: get_item raises; the except clause logs a
\* warning and the method returns None
CalculateStockAdjustmentFails(p) ==
    /\ pc[p] = "calc"
    /\ pc' = [pc EXCEPT ![p] = "returned"]
    /\ result' = [result EXCEPT ![p] =
                     SuccessResult(event[p], NoAdjustment, NoAlert)]
    /\ trace' = [trace EXCEPT ![p].calc = "failed",
                              ![p].failed_at = "calc"]
    /\ UNCHANGED <<readStore, eventStore, event, local, createVars, uuids,
                   runs, creates, writers, created>>
    /\ UNCHANGED pipeVars
    /\ UNCHANGED queryVars
    /\ UNCHANGED startVars

\* _store_inventory_movement: put_item of the movement
StoreInventoryMovement(p) ==
    /\ pc[p] = "store_movement"
    /\ eventStore' = PutItem(eventStore, local[p].movement.id,
                             MovementRecord(local[p].movement))
    /\ pc' = [pc EXCEPT ![p] = "update_get"]
    /\ trace' = [trace EXCEPT ![p].appended = @ + 1]
    /\ UNCHANGED <<readStore, event, local, result, createVars, uuids, runs,
                   creates, writers, created>>
    /\ UNCHANGED pipeVars
    /\ UNCHANGED queryVars
    /\ UNCHANGED startVars

StoreInventoryMovementFails(p) ==
    /\ pc[p] = "store_movement"
    /\ Raise(p, "store_movement")
    /\ UNCHANGED <<readStore, eventStore, event, local, createVars, uuids,
                   runs, creates, writers, created>>
    /\ UNCHANGED pipeVars
    /\ UNCHANGED queryVars
    /\ UNCHANGED startVars

\* _update_product_stock: get_item of the current stock
UpdateProductStockGet(p) ==
    /\ pc[p] = "update_get"
    /\ LET product_id == local[p].movement.product_id
       IN  local' = [local EXCEPT ![p].current_stock =
                        StockOf(readStore, product_id)]
    /\ pc' = [pc EXCEPT ![p] = "update_put"]
    /\ UNCHANGED <<readStore, eventStore, event, result, createVars, uuids,
                   runs, creates, trace, writers, created>>
    /\ UNCHANGED pipeVars
    /\ UNCHANGED queryVars
    /\ UNCHANGED startVars

UpdateProductStockGetFails(p) ==
    /\ pc[p] = "update_get"
    /\ Raise(p, "update_get")
    /\ UNCHANGED <<readStore, eventStore, event, local, createVars, uuids,
                   runs, creates, writers, created>>
    /\ UNCHANGED pipeVars
    /\ UNCHANGED queryVars
    /\ UNCHANGED startVars

\* _update_product_stock: put_item of the new stock
UpdateProductStockPut(p) ==
    /\ pc[p] = "update_put"
    /\ LET movement == local[p].movement
           new_stock == NewStock(local[p].current_stock, movement.quantity)
       IN  /\ readStore' = PutItem(readStore, movement.product_id,
                                   StockItem(movement, new_stock))
           /\ writers' = [writers EXCEPT ![movement.product_id] =
                             Append(@, [proc |-> p,
                                        severity |-> event[p].severity,
                                        event_id |-> event[p].id,
                                        before |-> StockOf(readStore,
                                                    movement.product_id),
                                        after |-> new_stock])]
           /\ trace' = MarkByProc(p, movement.product_id,
                                  [trace[p] EXCEPT !.wrote = TRUE])
    /\ pc' = [pc EXCEPT ![p] = "is_low"]
    /\ UNCHANGED <<eventStore, event, local, result, createVars, uuids, runs,
                   creates, created>>
    /\ UNCHANGED pipeVars
    /\ UNCHANGED queryVars
    /\ UNCHANGED startVars

UpdateProductStockPutFails(p) ==
    /\ pc[p] = "update_put"
    /\ Raise(p, "update_put")
    /\ UNCHANGED <<readStore, eventStore, event, local, createVars, uuids,
                   runs, creates, writers, created>>
    /\ UNCHANGED pipeVars
    /\ UNCHANGED queryVars
    /\ UNCHANGED startVars

\* _is_stock_low: get_item; execute() returns the empty success when the
\* stock is not low
IsStockLowCheck(p) ==
    /\ pc[p] = "is_low"
    /\ IF IsStockLow(readStore, local[p].movement.product_id)
       THEN /\ pc' = [pc EXCEPT ![p] = "create_alert"]
            /\ UNCHANGED result
       ELSE /\ pc' = [pc EXCEPT ![p] = "returned"]
            /\ result' = [result EXCEPT ![p] =
                            SuccessResult(event[p], NoAdjustment, NoAlert)]
    /\ UNCHANGED <<readStore, eventStore, event, local, createVars, uuids,
                   runs, creates, trace, writers, created>>
    /\ UNCHANGED pipeVars
    /\ UNCHANGED queryVars
    /\ UNCHANGED startVars

\* _is_stock_low: get_item raises; the except clause logs a warning and the
\* method returns False
IsStockLowCheckFails(p) ==
    /\ pc[p] = "is_low"
    /\ pc' = [pc EXCEPT ![p] = "returned"]
    /\ result' = [result EXCEPT ![p] =
                     SuccessResult(event[p], NoAdjustment, NoAlert)]
    /\ trace' = [trace EXCEPT ![p].failed_at = "is_low"]
    /\ UNCHANGED <<readStore, eventStore, event, local, createVars, uuids,
                   runs, creates, writers, created>>
    /\ UNCHANGED pipeVars
    /\ UNCHANGED queryVars
    /\ UNCHANGED startVars

\* _create_stock_low_event: get_item, and execute() returns the alert
CreateStockLowEvent(p) ==
    /\ pc[p] = "create_alert"
    /\ uuids' = [uuids EXCEPT ![p] = @ + 1]
    /\ pc' = [pc EXCEPT ![p] = "returned"]
    /\ result' = [result EXCEPT ![p] =
                     SuccessResult(event[p], local[p].stock_adjustment,
                                   StockLowEvent(readStore, UuidOf(p, uuids[p] + 1),
                                                 local[p].movement, event[p]))]
    /\ UNCHANGED <<readStore, eventStore, event, local, createVars, runs,
                   creates, trace, writers, created>>
    /\ UNCHANGED pipeVars
    /\ UNCHANGED queryVars
    /\ UNCHANGED startVars

\* _create_stock_low_event: get_item raises; the except clause logs an error
\* and the fallback event is returned
CreateStockLowEventFails(p) ==
    /\ pc[p] = "create_alert"
    /\ uuids' = [uuids EXCEPT ![p] = @ + 1]
    /\ pc' = [pc EXCEPT ![p] = "returned"]
    /\ result' = [result EXCEPT ![p] =
                     SuccessResult(event[p], local[p].stock_adjustment,
                                   FallbackAlert(UuidOf(p, uuids[p] + 1),
                                                 local[p].movement.product_id))]
    /\ trace' = [trace EXCEPT ![p].failed_at = "create_alert"]
    /\ UNCHANGED <<readStore, eventStore, event, local, createVars, runs,
                   creates, writers, created>>
    /\ UNCHANGED pipeVars
    /\ UNCHANGED queryVars
    /\ UNCHANGED startVars

\* CreateProductCommand.execute: put_item of the projection
CreateProductPutRead(product) ==
    /\ cpc = "idle"
    /\ creates < MaxCreates
    /\ creates' = creates + 1
    /\ readStore' = PutItem(readStore, product.id, ProductItem(product))
    /\ cpc' = "put_event"
    /\ cproduct' = product
    /\ cresult' = "none"
    /\ writers' = [writers EXCEPT ![product.id] = <<>>]
    /\ created' = [created EXCEPT ![product.id] = product.current_stock]
    /\ trace' = MarkByCreator(product.id)
    /\ UNCHANGED <<eventStore, pc, event, local, result, uuids, runs>>
    /\ UNCHANGED pipeVars
    /\ UNCHANGED queryVars
    /\ UNCHANGED startVars

\* CreateProductCommand.execute: the first put_item raises
CreateProductPutReadFails(product) ==
    /\ cpc = "idle"
    /\ creates < MaxCreates
    /\ creates' = creates + 1
    /\ cresult' = "raised"
    /\ UNCHANGED <<readStore, eventStore, procVars, cpc, cproduct, uuids, runs,
                   writers, created>>
    /\ UNCHANGED pipeVars
    /\ UNCHANGED queryVars
    /\ UNCHANGED startVars

\* CreateProductCommand.execute: put_item of the ProductCreated event
CreateProductPutEvent ==
    /\ cpc = "put_event"
    /\ uuids' = [uuids EXCEPT !["creator"] = @ + 1]
    /\ eventStore' = PutItem(eventStore, UuidOf("creator", uuids["creator"] + 1),
                             ProductCreatedRecord(
                                 UuidOf("creator", uuids["creator"] + 1),
                                 cproduct))
    /\ cpc' = "idle"
    /\ cproduct' = NoProduct
    /\ cresult' = "success"
    /\ UNCHANGED <<readStore, procVars, runs, creates, writers, created>>
    /\ UNCHANGED pipeVars
    /\ UNCHANGED queryVars
    /\ UNCHANGED startVars

\* CreateProductCommand.execute: the second put_item raises
CreateProductPutEventFails ==
    /\ cpc = "put_event"
    /\ uuids' = [uuids EXCEPT !["creator"] = @ + 1]
    /\ cpc' = "idle"
    /\ cproduct' = NoProduct
    /\ cresult' = "raised"
    /\ UNCHANGED <<readStore, eventStore, procVars, runs, creates, writers,
                   created>>
    /\ UNCHANGED pipeVars
    /\ UNCHANGED queryVars
    /\ UNCHANGED startVars

\* Two handlers (two replicas of the service), each processing one message,
\* and product creation.
Next ==
    \/ \E p \in Procs : \E msg \in Partition[p] : Receive(p, msg)
    \/ \E p \in Procs : StoreEvent(p)
    \/ \E p \in Procs : StoreEventFails(p)
    \/ \E p \in Procs : CalculateStockAdjustment(p)
    \/ \E p \in Procs : CalculateStockAdjustmentFails(p)
    \/ \E p \in Procs : StoreInventoryMovement(p)
    \/ \E p \in Procs : StoreInventoryMovementFails(p)
    \/ \E p \in Procs : UpdateProductStockGet(p)
    \/ \E p \in Procs : UpdateProductStockGetFails(p)
    \/ \E p \in Procs : UpdateProductStockPut(p)
    \/ \E p \in Procs : UpdateProductStockPutFails(p)
    \/ \E p \in Procs : IsStockLowCheck(p)
    \/ \E p \in Procs : IsStockLowCheckFails(p)
    \/ \E p \in Procs : CreateStockLowEvent(p)
    \/ \E p \in Procs : CreateStockLowEventFails(p)
    \/ \E product \in ConcurrentProducts : CreateProductPutRead(product)
    \/ \E product \in ConcurrentProducts : CreateProductPutReadFails(product)
    \/ CreateProductPutEvent
    \/ CreateProductPutEventFails

Spec == Init /\ [][Next]_vars

\* One handler processing messages one after the other, with every severity,
\* on a store that no one else writes.  The stock such a handler commits is
\* positive and the item it writes has no minimum_stock, so that its
\* low-stock check never succeeds: _create_stock_low_event is not a step.
Single == {"w1"}

NextSingle ==
    \/ \E p \in Single, msg \in Messages : Receive(p, msg)
    \/ \E p \in Single, msg \in Messages : ReceiveNext(p, msg)
    \/ \E p \in Single : StoreEvent(p)
    \/ \E p \in Single : StoreEventFails(p)
    \/ \E p \in Single : CalculateStockAdjustment(p)
    \/ \E p \in Single : CalculateStockAdjustmentFails(p)
    \/ \E p \in Single : StoreInventoryMovement(p)
    \/ \E p \in Single : StoreInventoryMovementFails(p)
    \/ \E p \in Single : UpdateProductStockGet(p)
    \/ \E p \in Single : UpdateProductStockGetFails(p)
    \/ \E p \in Single : UpdateProductStockPut(p)
    \/ \E p \in Single : UpdateProductStockPutFails(p)
    \/ \E p \in Single : IsStockLowCheck(p)
    \/ \E p \in Single : IsStockLowCheckFails(p)

SpecSingle == InitSingle /\ [][NextSingle]_vars

\* ------------------------------------------- start_consuming and shutdown
storeVars ==
    <<readStore, eventStore, cpc, cproduct, cresult, uuids, runs, creates,
      writers, created>>

\* the process has not ended: its threads still take steps
Alive == stop # "exited"

\* start_consuming: running is set and the loop is entered
StartConsuming ==
    /\ Alive
    /\ loop = "start"
    /\ running' = TRUE
    /\ loop' = "check"
    /\ UNCHANGED <<storeVars, procVars, consumer, position, committed, message,
                   correlation_context, outbox, flushed, log, stop, polls>>
    /\ UNCHANGED queryVars
    /\ UNCHANGED startVars

\* "while self.running:"
LoopCheck ==
    /\ Alive
    /\ loop = "check"
    /\ loop' = IF running THEN "poll" ELSE "finally"
    /\ UNCHANGED <<storeVars, procVars, running, consumer, position,
                   committed, message, correlation_context, outbox, flushed, log,
                   stop, polls>>
    /\ UNCHANGED queryVars
    /\ UNCHANGED startVars

\* poll() times out and returns None
PollEmpty ==
    /\ Alive
    /\ loop = "poll"
    /\ consumer = "open"
    /\ polls < MaxPolls
    /\ polls' = polls + 1
    /\ loop' = "check"
    /\ UNCHANGED <<storeVars, procVars, running, consumer, position,
                   committed, message, correlation_context, outbox, flushed, log,
                   stop>>
    /\ UNCHANGED queryVars
    /\ UNCHANGED startVars

\* variant: an error message ends the loop
PollErrorBreaks(kind) ==
    /\ Alive
    /\ loop = "poll"
    /\ consumer = "open"
    /\ polls < MaxPolls
    /\ polls' = polls + 1
    /\ log' = Append(log,
                     LogEntry(NoMsg, kind, record_error("kafka_consumer_error"),
                              FALSE, NoAlert, "none"))
    /\ loop' = "finally"
    /\ UNCHANGED <<storeVars, procVars, running, consumer, position,
                   committed, message, correlation_context, outbox, flushed, stop>>
    /\ UNCHANGED queryVars
    /\ UNCHANGED startVars

\* poll() returns an error message: the end of a partition is logged at
\* debug level, any other error is logged and metered; the loop continues
PollError(kind) ==
    /\ Alive
    /\ loop = "poll"
    /\ consumer = "open"
    /\ polls < MaxPolls
    /\ polls' = polls + 1
    /\ log' = Append(log,
                     LogEntry(NoMsg, kind,
                              IF kind = "partition_eof" THEN NoMetric
                              ELSE record_error("kafka_consumer_error"),
                              FALSE, NoAlert, "none"))
    /\ loop' = "check"
    /\ UNCHANGED <<storeVars, procVars, running, consumer, position,
                   committed, message, correlation_context, outbox, flushed, stop>>
    /\ UNCHANGED queryVars
    /\ UNCHANGED startVars

\* poll() returns the next message of the input topic; the client stores
\* its offset as the position of the consumer
PollMessage(m) ==
    /\ Alive
    /\ loop = "poll"
    /\ consumer = "open"
    /\ polls < MaxPolls
    /\ polls' = polls + 1
    /\ position' = position + 1
    /\ message' = [m EXCEPT !.offset = position + 1]
    /\ loop' = "process"
    /\ UNCHANGED <<storeVars, procVars, running, consumer, committed,
                   correlation_context, outbox, flushed, log, stop>>
    /\ UNCHANGED queryVars
    /\ UNCHANGED startVars

\* poll() on a closed consumer raises; the except clause of start_consuming
\* logs and meters it and the loop ends
PollRaises ==
    /\ Alive
    /\ loop = "poll"
    /\ consumer = "closed"
    /\ log' = Append(log,
                     LogEntry(NoMsg, "consumer_loop_error",
                              record_error("consumer_loop_error"),
                              FALSE, NoAlert, "none"))
    /\ loop' = "finally"
    /\ UNCHANGED <<storeVars, procVars, running, consumer, position,
                   committed, message, correlation_context, outbox, flushed, stop,
                   polls>>
    /\ UNCHANGED queryVars
    /\ UNCHANGED startVars

\* _process_message: decoding the value raises before the headers are read;
\* the outer except clause logs and meters
ProcessMessageUndecodable ==
    /\ Alive
    /\ loop = "process"
    /\ message.payload = "not_utf8"
    /\ log' = Append(log,
                     LogEntry(message, "message_processing_error",
                              record_error("message_processing_error"),
                              FALSE, NoAlert, "none"))
    /\ message' = NoMsg
    /\ loop' = "check"
    /\ UNCHANGED <<storeVars, procVars, running, consumer, position,
                   committed, correlation_context, outbox, flushed, stop,
                   polls>>
    /\ UNCHANGED queryVars
    /\ UNCHANGED startVars

\* variant: the JSONDecodeError is raised again and leaves _process_message
ProcessMessageJsonErrorRaises ==
    /\ Alive
    /\ loop = "process"
    /\ message.payload = "not_json"
    /\ correlation_context' = SetCorrelation(message)
    /\ log' = Append(log,
                     LogEntry(message, "json_parse_error",
                              record_error("json_parse_error"),
                              FALSE, NoAlert, "none"))
    /\ message' = NoMsg
    /\ loop' = "finally"
    /\ UNCHANGED <<storeVars, procVars, running, consumer, position,
                   committed, outbox, flushed, stop, polls>>
    /\ UNCHANGED queryVars
    /\ UNCHANGED startVars

\* _process_message: json.loads raises JSONDecodeError; logged, metered,
\* return
ProcessMessageJsonError ==
    /\ Alive
    /\ loop = "process"
    /\ message.payload = "not_json"
    /\ correlation_context' = SetCorrelation(message)
    /\ log' = Append(log,
                     LogEntry(message, "json_parse_error",
                              record_error("json_parse_error"),
                              FALSE, NoAlert, "none"))
    /\ message' = NoMsg
    /\ loop' = "check"
    /\ UNCHANGED <<storeVars, procVars, running, consumer, position,
                   committed, outbox, flushed, stop, polls>>
    /\ UNCHANGED queryVars
    /\ UNCHANGED startVars

\* _process_message: ColdChainFailureEvent(**message_data) raises; the outer
\* except clause logs and meters
ProcessMessageInvalid ==
    /\ Alive
    /\ loop = "process"
    /\ message.payload = "invalid"
    /\ correlation_context' = SetCorrelation(message)
    /\ log' = Append(log,
                     LogEntry(message, "message_processing_error",
                              record_error("message_processing_error"),
                              FALSE, NoAlert, "none"))
    /\ message' = NoMsg
    /\ loop' = "check"
    /\ UNCHANGED <<storeVars, procVars, running, consumer, position,
                   committed, outbox, flushed, stop, polls>>
    /\ UNCHANGED queryVars
    /\ UNCHANGED startVars

\* _process_message: the event is built and _process_cold_chain_failure
\* starts the command
ProcessMessageDispatch ==
    /\ Alive
    /\ loop = "process"
    /\ message.payload = "event"
    /\ pc[Worker] \in {"idle", "returned"}
    /\ correlation_context' = SetCorrelation(message)
    /\ pc' = [pc EXCEPT ![Worker] = "store_event"]
    /\ event' = [event EXCEPT ![Worker] = message.event]
    /\ local' = [local EXCEPT ![Worker] = NoLocal]
    /\ result' = [result EXCEPT ![Worker] = NoResult]
    /\ trace' = [trace EXCEPT ![Worker] = NoTrace]
    /\ loop' = "dispatched"
    /\ UNCHANGED <<storeVars, running, consumer, position, committed, message,
                   outbox, flushed, log, stop, polls>>
    /\ UNCHANGED queryVars
    /\ UNCHANGED startVars

\* _process_message after the command returned: the metrics are recorded;
\* _produce_stock_low_event is called when the outcome is a success with an
\* alert, and inside it json.dumps raises or the message is handed to the
\* producer; "Message processed successfully" is logged
FinishMessage ==
    /\ Alive
    /\ loop = "dispatched"
    /\ pc[Worker] = "returned"
    /\ LET r == result[Worker]
           called == r.success /\ r.stock_low_event.present
           dumped == JsonDumps(StockLowEventDictTypes)
       IN  /\ outbox' =
                IF called /\ dumped
                THEN Append(outbox,
                            OutboundMessage(r.stock_low_event,
                                            correlation_context, message.offset))
                ELSE outbox
           /\ log' = Append(log,
                            LogEntry(message, "processed",
                                     record_event_processed(r.success),
                                     r.success, r.stock_low_event,
                                     IF ~called THEN "none"
                                     ELSE IF dumped THEN "sent"
                                     ELSE "produce_error"))
    /\ message' = NoMsg
    /\ loop' = "check"
    /\ UNCHANGED <<storeVars, procVars, running, consumer, position,
                   committed, correlation_context, flushed, stop, polls>>
    /\ UNCHANGED queryVars
    /\ UNCHANGED startVars

\* the finally clause of start_consuming calls stop_consuming: the consumer
\* is closed, which commits its position, and the producer is flushed
LoopStopConsuming ==
    /\ Alive
    /\ loop = "finally"
    /\ consumer = "open"
    /\ running' = FALSE
    /\ consumer' = "closed"
    /\ committed' = position
    /\ flushed' = Len(outbox)
    /\ loop' = "stopped"
    /\ UNCHANGED <<storeVars, procVars, position, message, correlation_context,
                   outbox, log, stop, polls>>
    /\ UNCHANGED queryVars
    /\ UNCHANGED startVars

\* the same when the consumer was closed already: depending on the client
\* version the second close() returns, or raises and the flush is skipped
LoopStopConsumingAgain ==
    /\ Alive
    /\ loop = "finally"
    /\ consumer = "closed"
    /\ running' = FALSE
    /\ \/ flushed' = Len(outbox)
       \/ flushed' = flushed
    /\ loop' = "stopped"
    /\ UNCHANGED <<storeVars, procVars, consumer, position, committed, message,
                   correlation_context, outbox, log, stop, polls>>
    /\ UNCHANGED queryVars
    /\ UNCHANGED startVars

\* the signal handler or the shutdown event calls stop_consuming while the
\* consumer thread is in its loop: running = False
StopRequest ==
    /\ stop = "none"
    /\ loop # "start"
    /\ running' = FALSE
    /\ stop' = "closing"
    /\ UNCHANGED <<storeVars, procVars, loop, consumer, position, committed,
                   message, correlation_context, outbox, flushed, log, polls>>
    /\ UNCHANGED queryVars
    /\ UNCHANGED startVars

\* stop_consuming of that caller: consumer.close(), which commits the
\* position; on a consumer closed already it returns or raises, depending
\* on the client version
StopClose ==
    /\ stop = "closing"
    /\ consumer' = "closed"
    /\ committed' = IF consumer = "open" THEN position ELSE committed
    /\ \/ stop' = "flushing"
       \/ consumer = "closed" /\ stop' = "exiting"
    /\ UNCHANGED <<storeVars, procVars, loop, running, position, message,
                   correlation_context, outbox, flushed, log, polls>>
    /\ UNCHANGED queryVars
    /\ UNCHANGED startVars

\* stop_consuming of that caller: producer.flush()
StopFlush ==
    /\ stop = "flushing"
    /\ flushed' = Len(outbox)
    /\ stop' = "exiting"
    /\ UNCHANGED <<storeVars, procVars, loop, running, consumer, position,
                   committed, message, correlation_context, outbox, log, polls>>
    /\ UNCHANGED queryVars
    /\ UNCHANGED startVars

\* sys.exit(0) in the signal handler, or the end of main(): the process
\* ends and with it the daemon thread of the consumer, wherever it is
StopExit ==
    /\ stop = "exiting"
    /\ stop' = "exited"
    /\ UNCHANGED <<storeVars, procVars, loop, running, consumer, position,
                   committed, message, correlation_context, outbox, flushed, log,
                   polls>>
    /\ UNCHANGED queryVars
    /\ UNCHANGED startVars

\* enable.auto.commit: the client commits the position of the consumer in
\* the background, every auto.commit.interval.ms
AutoCommit ==
    /\ Alive
    /\ consumer = "open"
    /\ committed < position
    /\ committed' = position
    /\ UNCHANGED <<storeVars, procVars, loop, running, consumer, position,
                   message, correlation_context, outbox, flushed, log, stop,
                   polls>>
    /\ UNCHANGED queryVars
    /\ UNCHANGED startVars

\* The consumer thread of one process, polling and handling messages one
\* after the other, while products are created.  The store calls of the
\* product creation return here; Spec has them raise as well.
InitPipeline == InitOver(PipelineProducts)

NextPipeline ==
    \/ StartConsuming
    \/ LoopCheck
    \/ PollEmpty
    \/ \E kind \in PollErrors : PollError(kind)
    \/ \E m \in InboundMessages : PollMessage(m)
    \/ ProcessMessageUndecodable
    \/ ProcessMessageJsonError
    \/ ProcessMessageInvalid
    \/ ProcessMessageDispatch
    \/ StoreEvent(Worker)
    \/ StoreEventFails(Worker)
    \/ CalculateStockAdjustment(Worker)
    \/ CalculateStockAdjustmentFails(Worker)
    \/ StoreInventoryMovement(Worker)
    \/ StoreInventoryMovementFails(Worker)
    \/ UpdateProductStockGet(Worker)
    \/ UpdateProductStockGetFails(Worker)
    \/ UpdateProductStockPut(Worker)
    \/ UpdateProductStockPutFails(Worker)
    \/ IsStockLowCheck(Worker)
    \/ IsStockLowCheckFails(Worker)
    \/ CreateStockLowEvent(Worker)
    \/ CreateStockLowEventFails(Worker)
    \/ FinishMessage
    \/ \E product \in PipelineProducts : CreateProductPutRead(product)
    \/ CreateProductPutEvent

SpecPipeline == InitPipeline /\ [][NextPipeline]_vars

\* ---------------------------------------------------------------------
\* Start-up of the service (main.py): main() starts the consumer thread
\* and then the web server, whose startup event initialises the services.
\* ---------------------------------------------------------------------

\* everything but the start-up
startFrame ==
    <<readStore, eventStore, pc, event, local, result, cpc, cproduct, cresult,
      uuids, runs, creates, trace, writers, created, pipeVars, queryVars>>

\* main(): start_kafka_consumer() creates the daemon thread and starts it
MainStartKafkaConsumer ==
    /\ main_pc = "start"
    /\ main_pc' = "uvicorn"
    /\ consumer_thread' = "started"
    /\ UNCHANGED kafka_handler
    /\ UNCHANGED startFrame

\* main(): uvicorn.run fires startup_event, and initialize_services
\* assigns the global kafka_handler
StartupEvent ==
    /\ main_pc = "uvicorn"
    /\ main_pc' = "serving"
    /\ kafka_handler' = "KafkaHandler"
    /\ UNCHANGED consumer_thread
    /\ UNCHANGED startFrame

\* startup_event: initialize_services raises and the start-up fails
StartupEventFails ==
    /\ main_pc = "uvicorn"
    /\ main_pc' = "failed"
    /\ UNCHANGED <<kafka_handler, consumer_thread>>
    /\ UNCHANGED startFrame

\* consumer_thread(): "if kafka_handler:" on the global as it is now;
\* start_consuming is entered when it is set, and the thread function
\* returns when it is still None
ConsumerThreadCheck ==
    /\ consumer_thread = "started"
    /\ consumer_thread' = IF kafka_handler # "None" THEN "consuming"
                          ELSE "returned"
    /\ UNCHANGED <<kafka_handler, main_pc>>
    /\ UNCHANGED startFrame

\* The process as main() starts it: the global kafka_handler is None and
\* no thread runs.
InitStartup ==
    /\ InitCommands(PipelineProducts)
    /\ NoQuery
    /\ kafka_handler = "None"
    /\ main_pc = "start"
    /\ consumer_thread = "none"

\* The start-up, and the pipeline once the thread is in start_consuming.
NextStartup ==
    \/ MainStartKafkaConsumer
    \/ StartupEvent
    \/ StartupEventFails
    \/ ConsumerThreadCheck
    \/ (consumer_thread = "consuming" /\ NextPipeline)

SpecStartup == InitStartup /\ [][NextStartup]_vars


\* the steps of the consumer thread
LoopThread ==
    \/ StartConsuming
    \/ LoopCheck
    \/ PollEmpty
    \/ \E kind \in PollErrors : PollError(kind)
    \/ \E m \in InboundMessages : PollMessage(m)
    \/ ProcessMessageUndecodable
    \/ ProcessMessageJsonError
    \/ ProcessMessageInvalid
    \/ ProcessMessageDispatch
    \/ StoreEvent(Worker)
    \/ StoreEventFails(Worker)
    \/ CalculateStockAdjustment(Worker)
    \/ CalculateStockAdjustmentFails(Worker)
    \/ StoreInventoryMovement(Worker)
    \/ StoreInventoryMovementFails(Worker)
    \/ UpdateProductStockGet(Worker)
    \/ UpdateProductStockGetFails(Worker)
    \/ UpdateProductStockPut(Worker)
    \/ UpdateProductStockPutFails(Worker)
    \/ IsStockLowCheck(Worker)
    \/ IsStockLowCheckFails(Worker)
    \/ CreateStockLowEvent(Worker)
    \/ CreateStockLowEventFails(Worker)
    \/ FinishMessage

\* the consumer thread is scheduled as long as it can take a step, and
\* every store call returns or raises
SpecPipelineFair == SpecPipeline /\ WF_vars(LoopThread)

\* The consumer thread and the caller of stop_consuming, with the commits
\* of the client in the background.  No one else writes the store, so that
\* the low-stock check of the command never succeeds (see NextSingle).
NextShutdown ==
    \/ StartConsuming
    \/ LoopCheck
    \/ PollEmpty
    \/ \E kind \in PollErrors : PollError(kind)
    \/ \E m \in InboundMessages : PollMessage(m)
    \/ PollRaises
    \/ ProcessMessageUndecodable
    \/ ProcessMessageJsonError
    \/ ProcessMessageInvalid
    \/ ProcessMessageDispatch
    \/ Alive /\ StoreEvent(Worker)
    \/ Alive /\ StoreEventFails(Worker)
    \/ Alive /\ CalculateStockAdjustment(Worker)
    \/ Alive /\ CalculateStockAdjustmentFails(Worker)
    \/ Alive /\ StoreInventoryMovement(Worker)
    \/ Alive /\ StoreInventoryMovementFails(Worker)
    \/ Alive /\ UpdateProductStockGet(Worker)
    \/ Alive /\ UpdateProductStockGetFails(Worker)
    \/ Alive /\ UpdateProductStockPut(Worker)
    \/ Alive /\ UpdateProductStockPutFails(Worker)
    \/ Alive /\ IsStockLowCheck(Worker)
    \/ Alive /\ IsStockLowCheckFails(Worker)
    \/ FinishMessage
    \/ LoopStopConsuming
    \/ LoopStopConsumingAgain
    \/ StopRequest
    \/ StopClose
    \/ StopFlush
    \/ StopExit
    \/ AutoCommit

\* ---------------------------------------------------------------------
\* The queries, each run on the tables as they are when it is called.  A
\* query keeps no state between calls, so one call on every table covers
\* every call.
\* ---------------------------------------------------------------------

\* everything but the last query and its result
queryFrame ==
    <<readStore, eventStore, pc, event, local, result, cpc, cproduct, cresult,
      uuids, runs, creates, trace, writers, created, pipeVars, qread, qevents,
      startVars>>

\* the arguments the queries are called with
QueryProducts == {"p1", "p2"}
OptionalProducts == {None, "p1"}
OptionalLevels == {None, "high"}
OptionalTypes == {None, "loss"}
OptionalLocations == {None, "A"}
OptionalDates == {NoDate, [sec |-> 2, micro |-> 0]}
Limits == {1, DefaultLimit}
Days == {1, 30}
Clock == {[sec |-> 3, micro |-> 0]}

\* GetProductQuery.execute
GetProductQuery(product_id) ==
    /\ qcall = NoCall
    /\ qcall' = [query |-> "GetProduct", store |-> "ok",
                 product_id |-> product_id]
    /\ qresult' = GetProduct(qread, product_id)
    /\ UNCHANGED queryFrame

\* GetProductQuery.execute, get_item raises
GetProductQueryFails(product_id) ==
    /\ qcall = NoCall
    /\ qcall' = [query |-> "GetProduct", store |-> "failed",
                 product_id |-> product_id]
    /\ qresult' = [success |-> FALSE, error |-> "store",
                   product_id |-> product_id]
    /\ UNCHANGED queryFrame

\* ListProductsQuery.execute
ListProductsQuery(location, low_stock_only, limit) ==
    /\ qcall = NoCall
    /\ qcall' = [query |-> "ListProducts", store |-> "ok",
                 location |-> location, low_stock_only |-> low_stock_only,
                 limit |-> limit]
    /\ qresult' = ListProducts(qread, location, low_stock_only, limit)
    /\ UNCHANGED queryFrame

\* ListProductsQuery.execute, the scan raises and the failure is
\* returned as a successful empty list
ListProductsQueryFailsEmpty(location, low_stock_only, limit) ==
    /\ qcall = NoCall
    /\ qcall' = [query |-> "ListProducts", store |-> "failed",
                 location |-> location, low_stock_only |-> low_stock_only,
                 limit |-> limit]
    /\ qresult' = [success |-> TRUE, items |-> <<>>, list |-> "products",
                   count |-> 0]
    /\ UNCHANGED queryFrame

\* ListProductsQuery.execute, the scan raises
ListProductsQueryFails(location, low_stock_only, limit) ==
    /\ qcall = NoCall
    /\ qcall' = [query |-> "ListProducts", store |-> "failed",
                 location |-> location, low_stock_only |-> low_stock_only,
                 limit |-> limit]
    /\ qresult' = QueryFailure("store", "products")
    /\ UNCHANGED queryFrame

\* GetInventoryMovementsQuery.execute
GetInventoryMovementsQuery(product_id, start_date, end_date, movement_type, limit) ==
    /\ qcall = NoCall
    /\ qcall' = [query |-> "GetInventoryMovements", store |-> "ok",
                 product_id |-> product_id, start_date |-> start_date,
                 end_date |-> end_date, movement_type |-> movement_type,
                 limit |-> limit]
    /\ qresult' = GetInventoryMovements(qevents, product_id, start_date,
                                        end_date, movement_type, limit)
    /\ UNCHANGED queryFrame

\* GetInventoryMovementsQuery.execute, the index query raises
GetInventoryMovementsQueryFails(product_id, start_date, end_date, movement_type, limit) ==
    /\ qcall = NoCall
    /\ qcall' = [query |-> "GetInventoryMovements", store |-> "failed",
                 product_id |-> product_id, start_date |-> start_date,
                 end_date |-> end_date, movement_type |-> movement_type,
                 limit |-> limit]
    /\ qresult' = QueryFailure("store", "movements")
    /\ UNCHANGED queryFrame

\* GetColdChainFailuresQuery.execute
GetColdChainFailuresQuery(product_id, severity, start_date, end_date, limit) ==
    /\ qcall = NoCall
    /\ qcall' = [query |-> "GetColdChainFailures", store |-> "ok",
                 product_id |-> product_id, level |-> severity,
                 start_date |-> start_date, end_date |-> end_date,
                 limit |-> limit]
    /\ qresult' = GetColdChainFailures(qevents, product_id, severity,
                                       start_date, end_date, limit)
    /\ UNCHANGED queryFrame

\* GetColdChainFailuresQuery.execute, the scan raises
GetColdChainFailuresQueryFails(product_id, severity, start_date, end_date, limit) ==
    /\ qcall = NoCall
    /\ qcall' = [query |-> "GetColdChainFailures", store |-> "failed",
                 product_id |-> product_id, level |-> severity,
                 start_date |-> start_date, end_date |-> end_date,
                 limit |-> limit]
    /\ qresult' = QueryFailure("store", "failures")
    /\ UNCHANGED queryFrame

\* GetStockLowEventsQuery.execute
GetStockLowEventsQuery(product_id, urgency_level, start_date, end_date, limit) ==
    /\ qcall = NoCall
    /\ qcall' = [query |-> "GetStockLowEvents", store |-> "ok",
                 product_id |-> product_id, level |-> urgency_level,
                 start_date |-> start_date, end_date |-> end_date,
                 limit |-> limit]
    /\ qresult' = GetStockLowEventsFiltered(qevents, product_id,
                      urgency_level, start_date, end_date, limit)
    /\ UNCHANGED queryFrame

\* GetStockLowEventsQuery.execute, the scan raises
GetStockLowEventsQueryFails(product_id, urgency_level, start_date, end_date, limit) ==
    /\ qcall = NoCall
    /\ qcall' = [query |-> "GetStockLowEvents", store |-> "failed",
                 product_id |-> product_id, level |-> urgency_level,
                 start_date |-> start_date, end_date |-> end_date,
                 limit |-> limit]
    /\ qresult' = QueryFailure("store", "events")
    /\ UNCHANGED queryFrame

\* GetProductStockHistoryQuery.execute
GetProductStockHistoryQuery(product_id, days, now) ==
    /\ qcall = NoCall
    /\ qcall' = [query |-> "GetProductStockHistory", store |-> "ok",
                 product_id |-> product_id, days |-> days, now |-> now]
    /\ qresult' = GetProductStockHistory(qevents, product_id, days, now)
    /\ UNCHANGED queryFrame

\* The tables the queries are run on: every table of at most MaxItems
\* items, in every scan order.
InitQuery ==
    /\ InitCommands({})
    /\ qread \in TablesOver(StoredProductItems, MaxItems - 1)
    /\ qevents \in TablesOver(StoredEventItems, MaxItems)
    /\ qcall = NoCall
    /\ qresult = NoQueryResult
    /\ Started

NextQuery ==
    \/ \E product_id \in QueryProducts :
          \/ GetProductQuery(product_id)
          \/ GetProductQueryFails(product_id)
    \/ \E location \in OptionalLocations :
          \E low_stock_only \in BOOLEAN :
             \E limit \in Limits :
                \/ ListProductsQuery(location, low_stock_only, limit)
                \/ ListProductsQueryFails(location, low_stock_only, limit)
    \/ \E product_id \in QueryProducts :
          \E start_date \in OptionalDates :
             \E end_date \in OptionalDates :
                \E movement_type \in OptionalTypes :
                   \E limit \in Limits :
                      \/ GetInventoryMovementsQuery(product_id, start_date,
                             end_date, movement_type, limit)
                      \/ GetInventoryMovementsQueryFails(product_id,
                             start_date, end_date, movement_type, limit)
    \/ \E product_id \in OptionalProducts :
          \E level \in OptionalLevels :
             \E start_date \in OptionalDates :
                \E end_date \in OptionalDates :
                   \E limit \in Limits :
                      \/ GetColdChainFailuresQuery(product_id, level,
                             start_date, end_date, limit)
                      \/ GetColdChainFailuresQueryFails(product_id, level,
                             start_date, end_date, limit)
                      \/ GetStockLowEventsQuery(product_id, level,
                             start_date, end_date, limit)
                      \/ GetStockLowEventsQueryFails(product_id, level,
                             start_date, end_date, limit)
    \/ \E product_id \in QueryProducts :
          \E days \in Days :
             \E now \in Clock :
                GetProductStockHistoryQuery(product_id, days, now)

SpecQuery == InitQuery /\ [][NextQuery]_vars


SpecShutdown == InitPipeline /\ [][NextShutdown]_vars

TypeOK ==
    /\ DOMAIN readStore \subseteq Products
    /\ \A p \in Procs : pc[p] \in {"idle", "store_event", "calc",
                                    "store_movement", "update_get",
                                    "update_put", "is_low", "create_alert",
                                    "returned"}
    /\ \A p \in Procs : runs[p] \in 0..MaxRuns
    /\ creates \in 0..MaxCreates

\* ------------------------------------------------------------ properties
CurrentStock(x) == ItemGet(readStore[x], "current_stock", 0)

\* the loss fractions of the specification, in hundredths
Fraction100(severity) ==
    CASE severity = "low" -> 5
      [] severity = "medium" -> 15
      [] severity = "high" -> 30
      [] severity = "critical" -> 50
      [] OTHER -> 10

\* q = floor(n * fraction(severity))
IsFloorLoss(q, n, severity) ==
    /\ 100 * q <= n * Fraction100(severity)
    /\ n * Fraction100(severity) < 100 * (q + 1)

\* no other writer touched the projection during the execution of p and no
\* store call of it raised
Undisturbed(p) ==
    /\ ~trace[p].by_creator
    /\ ~trace[p].by_proc
    /\ trace[p].failed_at = ""

AfterCalc(p) ==
    pc[p] \in {"store_movement", "update_get", "update_put", "is_low",
               "create_alert", "returned"}

\* C1: the current_stock of every product projection is >= 0 in every
\* reachable state, whatever the interleaving of the handlers.
C1_StockNeverNegative ==
    \A x \in DOMAIN readStore : CurrentStock(x) >= 0

\* a handler committed a decrement larger than the stock it read in
\* _update_product_stock, and the clamp stored 0
C1_Witness ==
    \E p \in Procs :
        /\ pc[p] = "is_low"
        /\ local[p].current_stock < local[p].movement.quantity
        /\ CurrentStock(local[p].movement.product_id) = 0

SerialStock(n, severity) == n - ((n * Fraction100(severity)) \div 100)

\* C2: when two handlers processed one failure each for the same product
\* since it was created, both applying a non-zero loss, the stock is the
\* result of applying the two losses one after the other in some order.
C2_NoLostDecrement ==
    \A p, q \in Procs :
        ( /\ p # q
          /\ pc[p] \in {"is_low", "create_alert", "returned"}
          /\ pc[q] \in {"is_low", "create_alert", "returned"}
          /\ event[p].product_id = event[q].product_id
          /\ trace[p].wrote /\ trace[q].wrote
          /\ ~trace[p].by_creator /\ ~trace[q].by_creator
          /\ Len(writers[event[p].product_id]) = 2
          /\ {w.proc : w \in {writers[event[p].product_id][i] : i \in 1..2}}
               = {p, q} )
        => LET x == event[p].product_id
               n == created[x]
           IN  CurrentStock(x) \in
                 { SerialStock(SerialStock(n, event[p].severity),
                               event[q].severity),
                   SerialStock(SerialStock(n, event[q].severity),
                               event[p].severity) }

\* C3: a second processing of the same failure event id, right after the
\* first one decremented the stock, leaves the stock as the first left it.
C3_NoDoubleDecrement ==
    \A x \in Products :
        \A i \in 1..Len(writers[x]) :
            ( /\ i > 1
              /\ writers[x][i].event_id = writers[x][i - 1].event_id
              /\ writers[x][i].severity = writers[x][i - 1].severity )
            => writers[x][i].after = writers[x][i - 1].after

\* C4: for an execution that no other writer disturbs, the loss is
\* floor(n * fraction(severity)) of the stock n it read, it is <= n, the
\* stock committed is n - loss, and an unrecognised severity does not make
\* the operation fail (stock 100, severity unknown: loss 10, stock 90).
C4_LossAndCommittedStock ==
    \A p \in Procs :
        (Undisturbed(p) /\ trace[p].calc = "found" /\ AfterCalc(p)) =>
            LET n == trace[p].calc_stock
                q == local[p].stock_adjustment.quantity
                x == event[p].product_id
            IN  /\ IsFloorLoss(q, n, event[p].severity)
                /\ q <= n
                /\ (local[p].stock_adjustment.present <=> (q > 0))
                /\ pc[p] = "is_low" => CurrentStock(x) = n - q
                /\ pc[p] = "returned" => result[p].success
                /\ (pc[p] = "is_low" /\ n = 100
                      /\ event[p].severity = "unknown")
                     => (q = 10 /\ CurrentStock(x) = 90)

\* stock 100 with severity unknown has just been committed as 90
C4_Witness ==
    \E p \in Procs :
        /\ Undisturbed(p)
        /\ pc[p] = "is_low"
        /\ event[p].severity = "unknown"
        /\ trace[p].calc_stock = 100
        /\ CurrentStock(event[p].product_id) = 90

\* C5: an undisturbed execution that applied a non-zero loss to a product
\* with stock n and configured minimum m returns an alert exactly when
\* n - loss <= m.
C5_AlertIffLow ==
    \A p \in Procs :
        ( /\ pc[p] = "returned"
          /\ Undisturbed(p)
          /\ trace[p].calc = "found"
          /\ trace[p].calc_configured
          /\ trace[p].wrote )
        => ( result[p].stock_low_event.present
               <=> (trace[p].calc_stock - local[p].movement.quantity
                      <= trace[p].calc_minimum) )

\* C6: the urgency of an alert follows from the stock c and the minimum m
\* it carries, with c <= m: critical iff c = 0, high iff 0 < c <= m/2,
\* medium iff m/2 < c (c = 20, m = 50: high; c = 0: critical).
C6_UrgencyFirstMatch ==
    \A p \in Procs :
        LET a == result[p].stock_low_event
            c == a.current_stock
            m == a.minimum_stock
        IN  (a.present /\ c <= m) =>
              /\ a.urgency_level = "critical" <=> c = 0
              /\ a.urgency_level = "high" <=> (c > 0 /\ 2 * c <= m)
              /\ a.urgency_level = "medium" <=> (c > 0 /\ 2 * c > m)
              /\ (c = 20 /\ m = 50) => a.urgency_level = "high"

\* an alert with stock 20 and minimum 50 was returned
C6_Witness ==
    \E p \in Procs :
        /\ result[p].stock_low_event.present
        /\ ~result[p].stock_low_event.fallback
        /\ result[p].stock_low_event.current_stock = 20
        /\ result[p].stock_low_event.minimum_stock = 50
        /\ result[p].stock_low_event.urgency_level = "high"

\* C7: every returned alert has an urgency among medium, high and critical
\* and a current_stock <= minimum_stock, whatever is interleaved between the
\* low-stock check and the construction of the alert.
C7_NeverLowUrgency ==
    \A p \in Procs :
        result[p].stock_low_event.present =>
            /\ result[p].stock_low_event.urgency_level
                 \in {"medium", "high", "critical"}
            /\ result[p].stock_low_event.current_stock
                 <= result[p].stock_low_event.minimum_stock

\* C8: an execution that read a stock whose loss is 0 appends no movement,
\* returns no alert, does not write the projection and succeeds, also when
\* the stock is already at or below the minimum.
C8_ZeroLossNoOp ==
    \A p \in Procs :
        ( /\ pc[p] = "returned"
          /\ trace[p].calc = "found"
          /\ trace[p].calc_stock * Fraction100(event[p].severity) < 100 )
        => /\ result[p].success
           /\ ~result[p].stock_adjustment.present
           /\ ~result[p].stock_low_event.present
           /\ ~local[p].movement.present
           /\ trace[p].appended = 0
           /\ ~trace[p].wrote

\* stock 0 under a minimum of 50, severity critical, processed to its end
C8_Witness ==
    \E p \in Procs :
        /\ pc[p] = "returned"
        /\ trace[p].calc = "found"
        /\ trace[p].calc_stock = 0
        /\ trace[p].calc_minimum = 50
        /\ event[p].severity = "critical"
        /\ result[p].success

\* C9: an execution that found no projection for its product succeeds
\* after storing the event, appends no movement, returns no alert and
\* writes no projection; a product that is never created has none.
C9_AbsentProductNoOp ==
    /\ "p2" \notin DOMAIN readStore
    /\ \A p \in Procs :
        (pc[p] = "returned" /\ trace[p].calc = "absent") =>
            /\ result[p].success
            /\ result[p].error = ""
            /\ ~result[p].stock_adjustment.present
            /\ ~result[p].stock_low_event.present
            /\ trace[p].appended = 0
            /\ ~trace[p].wrote
            /\ event[p].id \in DOMAIN eventStore

\* a failure of the product that has no projection was processed to its end
C9_Witness ==
    \E p \in Procs :
        /\ pc[p] = "returned"
        /\ event[p].product_id = "p2"
        /\ trace[p].calc = "absent"
        /\ eventStore[event[p].id].product_id = "p2"

\* C10: the failure event is written before the projection is read and
\* before any other write; when that write raises it is attempted once, the
\* outcome is a failure, no movement is appended and no projection written.
C10_AuditBeforeCompute ==
    \A p \in Procs :
        /\ (trace[p].calc # "none" \/ trace[p].appended > 0 \/ trace[p].wrote
              \/ local[p].movement.present)
             => (trace[p].event_stored /\ event[p].id \in DOMAIN eventStore)
        /\ trace[p].reads_before_event = 0
        /\ (pc[p] = "returned" /\ ~trace[p].event_stored) =>
             /\ ~result[p].success
             /\ result[p].error = "store_event"
             /\ trace[p].event_puts = 1
             /\ trace[p].calc = "none"
             /\ trace[p].appended = 0
             /\ ~trace[p].wrote

\* the write of the failure event raised and the handler returned
C10_Witness ==
    \E p \in Procs :
        /\ pc[p] = "returned"
        /\ trace[p].failed_at = "store_event"
        /\ ~result[p].success
        /\ event[p].id \notin DOMAIN eventStore

\* the movement records of the events table
MovementIds(table) ==
    {k \in DOMAIN table : "movement_type" \in DOMAIN table[k]}

\* what holds of the current or last execution of every handler
C11_Appended ==
    \A p \in Procs :
        /\ trace[p].appended <= 1
        /\ ( /\ local[p].movement.present
             /\ pc[p] # "store_movement"
             /\ trace[p].failed_at # "store_movement" )
           => /\ trace[p].appended = 1
              /\ local[p].movement.id \in MovementIds(eventStore)
              /\ LET m == eventStore[local[p].movement.id]
                 IN  /\ m.movement_type = "loss"
                     /\ m.product_id = event[p].product_id
                     /\ m.failure_event_id = event[p].id
                     /\ m.quantity = local[p].stock_adjustment.quantity
                     /\ m.quantity > 0
                     /\ IsFloorLoss(m.quantity, trace[p].calc_stock,
                                    event[p].severity)
        /\ ( \/ trace[p].calc \in {"none", "absent", "failed"}
             \/ trace[p].calc_stock * Fraction100(event[p].severity) < 100
             \/ trace[p].failed_at = "store_movement" )
           => trace[p].appended = 0

\* what holds of every step: stored movements stay as they are, and the
\* events table gains a movement exactly when an execution appends one
C11_Step ==
    /\ \A k \in MovementIds(eventStore) :
          k \in DOMAIN eventStore' /\ eventStore'[k] = eventStore[k]
    /\ \A p \in Procs :
          trace'[p].appended = trace[p].appended + 1
            => Cardinality(MovementIds(eventStore'))
                 = Cardinality(MovementIds(eventStore)) + 1
    /\ (\A p \in Procs : trace'[p].appended <= trace[p].appended)
          => MovementIds(eventStore') = MovementIds(eventStore)

\* C11: an execution that computed a non-zero loss, once its movement write
\* returned, has appended exactly one record of type loss whose quantity is
\* the computed loss and which names the failure event id; an execution
\* with zero loss, an absent product or a failed write appended none; no
\* step changes or removes a stored movement.
C11_OneMovementPerLoss == [][C11_Step /\ C11_Appended']_vars

\* the movement of 30 for a high failure on a stock of 100 was appended
C11_Witness ==
    \E p \in Procs :
        /\ pc[p] = "update_get"
        /\ trace[p].appended = 1
        /\ trace[p].calc_stock = 100
        /\ local[p].movement.id \in DOMAIN eventStore
        /\ eventStore[local[p].movement.id].movement_type = "loss"
        /\ eventStore[local[p].movement.id].quantity = 30
        /\ eventStore[local[p].movement.id].failure_event_id = event[p].id

\* C12: when an execution returned an alert, GetAlerts for the product of
\* the alert finds a StockBajo record with the id of that alert in the
\* Event Store.
C12_AlertPersisted ==
    \A p \in Procs :
        (pc[p] = "returned" /\ result[p].stock_low_event.present) =>
            \E item \in GetStockLowEvents(eventStore,
                                          result[p].stock_low_event.product_id) :
                item.id = result[p].stock_low_event.id

\* C13: an execution in which a store call raised returns a failed outcome:
\* no success, and no alert.
C13_StorageFailureReported ==
    \A p \in Procs :
        (pc[p] = "returned" /\ trace[p].failed_at # "") =>
            /\ ~result[p].success
            /\ ~result[p].stock_low_event.present

\* the outbound messages caused by the inbound message at an offset
Published(offset) == {j \in 1..Len(outbox) : outbox[j].cause = offset}

InFlightMessage == loop \in {"process", "dispatched"}

\* C14: every handled inbound message has one outbound message when the
\* command returned success with an alert and none otherwise, and every
\* outbound message belongs to a handled inbound message.
C14_PublishIffAlert ==
    /\ \A i \in 1..Len(log) :
          log[i].offset > 0 =>
              Cardinality(Published(log[i].offset))
                = IF log[i].success /\ log[i].alert.present THEN 1 ELSE 0
    /\ \A j \in 1..Len(outbox) :
          \E i \in 1..Len(log) : log[i].offset = outbox[j].cause

C17_MalformedTerminal ==
    [][ ( /\ loop = "process"
          /\ message.payload \in MalformedPayloads
          /\ loop' # loop )
        => /\ loop' = "check"
           /\ running'
           /\ pc' = pc
           /\ result' = result
           /\ readStore' = readStore
           /\ eventStore' = eventStore
           /\ outbox' = outbox
           /\ position' = position
           /\ \A i \in 1..Len(log) : log[i].offset # message.offset
           /\ Len(log') = Len(log) + 1
           /\ SubSeq(log', 1, Len(log)) = log
           /\ log'[Len(log')].offset = message.offset
           /\ log'[Len(log')].state
                \in {"json_parse_error", "message_processing_error"}
           /\ log'[Len(log')].metric.counter = "errors" ]_vars

\* a message that is not JSON was skipped after an event had been processed
C17_Witness ==
    /\ loop = "check"
    /\ running
    /\ Len(log) = 2
    /\ log[1].state = "processed"
    /\ log[2].state = "json_parse_error"
    /\ log[2].offset = 2
    /\ pc[Worker] = "returned"

\* C18: the loop never leaves its cycle while no one stops it; every
\* message poll() handed over is in flight or has exactly one terminal
\* entry; a message in flight leads to the head of the loop, and the head
\* of the loop leads to the next poll.
C18_LoopAdvances ==
    /\ [](loop \notin {"finally", "stopped"})
    /\ [](\A o \in 1..position :
             IF InFlightMessage /\ message.offset = o
             THEN \A i \in 1..Len(log) : log[i].offset # o
             ELSE Cardinality({i \in 1..Len(log) : log[i].offset = o}) = 1)
    /\ (InFlightMessage ~> loop = "check")
    /\ (loop = "check" ~> loop = "poll")

\* a schema-invalid payload and then a failed command were both handled and
\* the loop is at its next poll
C18_Witness ==
    /\ loop = "poll"
    /\ Len(log) = 2
    /\ log[1].state = "message_processing_error"
    /\ log[2].state = "processed"
    /\ ~log[2].success

\* C19: while a message is in flight its offset is not committed.
C19_CommitAfterProcessing ==
    InFlightMessage => committed < message.offset

\* C20: the consumer is not closed while a message is in flight, and when
\* the process ends no message is in flight and every outbound message was
\* flushed.
C20_OrderedShutdown ==
    /\ consumer = "closed" => ~InFlightMessage
    /\ stop = "exited" => (~InFlightMessage /\ flushed = Len(outbox))

\* ---------------------------------------------------------------------
\* Properties of the Query Service
\* ---------------------------------------------------------------------

\* the movements of a product recorded in the window [start, end], in
\* ascending timestamp order
MovementsInWindow(items, product_id, start_date, end_date) ==
    SortByTimestamp(SelectSeq(items, LAMBDA x :
        /\ "movement_type" \in DOMAIN x
        /\ AttrIs(x, "product_id", product_id)
        /\ FromStart(x, start_date)
        /\ UntilEnd(x, end_date)))

\* the running balances of a stock history
Balances(stock_history) ==
    [i \in 1..Len(stock_history) |-> stock_history[i].stock]

\* the last query was the stock history of a product, on a reachable store
HistoryCalled ==
    /\ qcall.query = "GetProductStockHistory"
    /\ qcall.store = "ok"

\* C21: on a reachable store GetStockHistory succeeds and returns one entry
\* per movement of the product in the window, in ascending timestamp
\* order, each with the running balance replayed from 0 ('in' adds, 'out'
\* and 'loss' subtract, 'adjustment' sets), and the final balance.
C21_StockHistoryReplayed ==
    HistoryCalled =>
        LET expected ==
                StockHistory(MovementsInWindow(qevents, qcall.product_id,
                    MinusDays(qcall.now, qcall.days), qcall.now), 0)
        IN  /\ qresult.success
            /\ Balances(qresult.items) = Balances(expected)
            /\ qresult.current_stock =
                   IF expected = <<>> THEN 0
                   ELSE expected[Len(expected)].stock

\* the items of a table in the order a scan returns them
RECURSIVE ItemsOf(_)
ItemsOf(table) ==
    IF DOMAIN table = {} THEN <<>>
    ELSE LET k == CHOOSE k \in DOMAIN table : TRUE
         IN  <<table[k]>> \o ItemsOf([x \in DOMAIN table \ {k} |-> table[x]])

\* the stock history of a product over the whole history of the events
\* table, asked when nothing is in flight
HistoryOf(x) ==
    GetProductStockHistory(ItemsOf(eventStore), x, 30, [sec |-> 3, micro |-> 0])

\* C22: after any sequence of product creations and ProcessFailure
\* operations, all movements recorded, the final balance GetStockHistory
\* reconstructs over the whole history equals the current_stock of the
\* projection.
C22_ReplayEqualsProjection ==
    \A x \in DOMAIN readStore :
        ( /\ \A p \in Procs : ~InFlight(p) /\ trace[p].failed_at = ""
          /\ cpc = "idle"
          /\ writers[x] # <<>> )
        => /\ HistoryOf(x).success
           /\ HistoryOf(x).current_stock = CurrentStock(x)

\* the tables holding the same items as a table, in every scan order
SameItems(items) ==
    { t \in TablesOver(StoredEventItems, Len(items)) :
        /\ Len(t) = Len(items)
        /\ { t[i] : i \in 1..Len(t) } = { items[i] : i \in 1..Len(items) } }

\* the items of a product carry pairwise distinct timestamps
DistinctTimestamps(items, product_id) ==
    \A i, j \in 1..Len(items) :
        ( /\ i # j
          /\ items[i].product_id = product_id
          /\ items[j].product_id = product_id )
        => TimestampOf(items[i]) # TimestampOf(items[j])

MovementsCalled ==
    /\ qcall.query = "GetInventoryMovements"
    /\ qcall.store = "ok"

\* C24: GetMovements(productId, from?, to?, movementType?, limit) returns
\* at most limit records, all of that product, most recent first by
\* timestamp; with a time bound every record lies within it, the bound
\* included; with a movementType every record has that type.
C24_MovementsFiltered ==
    MovementsCalled =>
        /\ qresult.success
        /\ Len(qresult.items) <= qcall.limit
        /\ \A i \in 1..Len(qresult.items) :
              LET x == qresult.items[i]
              IN  /\ \E k \in 1..Len(qevents) : qevents[k] = x
                  /\ x.product_id = qcall.product_id
                  /\ qcall.start_date # NoDate =>
                        ~StrLess(x.timestamp, isoformat(qcall.start_date))
                  /\ qcall.end_date # NoDate =>
                        ~StrLess(isoformat(qcall.end_date), x.timestamp)
                  /\ qcall.movement_type # None =>
                        x.movement_type = qcall.movement_type
        /\ \A i, j \in 1..Len(qresult.items) :
              i < j => ~StrLess(qresult.items[i].timestamp,
                                qresult.items[j].timestamp)
        \* a record at the bound itself is returned
        /\ \A k \in 1..Len(qevents) :
              ( /\ qcall.limit >= Len(qevents)
                /\ qevents[k].product_id = qcall.product_id
                /\ qcall.movement_type = None
                /\ qcall.start_date # NoDate
                /\ qevents[k].timestamp = isoformat(qcall.start_date)
                /\ qcall.end_date \in {NoDate, qcall.start_date} )
              => \E i \in 1..Len(qresult.items) : qresult.items[i] = qevents[k]

\* three movements of p1 were asked for from the bound 2 on, and the two
\* at or after the bound came back, the most recent first
C24_Witness ==
    /\ MovementsCalled
    /\ qcall.product_id = "p1"
    /\ qcall.start_date = [sec |-> 2, micro |-> 0]
    /\ qcall.end_date = NoDate
    /\ qcall.movement_type = None
    /\ Len(qevents) = 3
    /\ Len(qresult.items) = 2
    /\ qresult.items[1].timestamp = isoformat([sec |-> 2, micro |-> 5])
    /\ qresult.items[2].timestamp = isoformat([sec |-> 2, micro |-> 0])

\* C25: every query returns a dictionary with its success flag; a query
\* whose store call failed returns success False with an error, never a
\* successful (empty) result.
C25_StoreFailureStructured ==
    qcall # NoCall =>
        /\ "success" \in DOMAIN qresult
        /\ ~qresult.success => "error" \in DOMAIN qresult
        /\ qcall.store = "failed" =>
              /\ ~qresult.success
              /\ qresult.error = "store"

\* the scan of a product listing raised and the listing reported the
\* failure
C25_Witness ==
    /\ qcall.query = "ListProducts"
    /\ qcall.store = "failed"
    /\ Len(qread) > 0
    /\ ~qresult.success
    /\ qresult.items = <<>>

\* handler p committed a loss on a product whose configured minimum it
\* read, and the stock it left is at or below that minimum
LeftLow(p) ==
    /\ pc[p] = "returned"
    /\ Undisturbed(p)
    /\ trace[p].calc = "found"
    /\ trace[p].calc_configured
    /\ trace[p].wrote
    /\ CurrentStock(event[p].product_id) <= trace[p].calc_minimum

\* C26: ListProducts(location?, lowStockOnly, limit) returns at most limit
\* products, with a location only products of that location, with
\* lowStockOnly only products with current_stock <= minimum_stock; and
\* when the store holds no more than limit products every stored product
\* satisfying the filters is returned: every product when there is no
\* filter, every product at or below its minimum with lowStockOnly.
C26_ListProductsComplete ==
    \A limit \in Limits : \A low_stock_only \in BOOLEAN :
        \A location \in OptionalLocations :
            LET r == ListProducts(ItemsOf(readStore), location,
                                  low_stock_only, limit)
                returned == { r.items[i].id : i \in 1..Len(r.items) }
            IN  /\ r.success
                /\ Len(r.items) <= limit
                /\ \A i \in 1..Len(r.items) :
                      /\ location # None => r.items[i].location = location
                      /\ low_stock_only => LowStock(r.items[i])
                /\ ( /\ Cardinality(DOMAIN readStore) <= limit
                     /\ location = None )
                   => /\ ~low_stock_only => returned = DOMAIN readStore
                      /\ low_stock_only =>
                            \A p \in Procs :
                               LeftLow(p) => event[p].product_id \in returned

\* the failure events GetFailures returns from the items of the Event
\* Store
Failures(items, product_id, severity, start_date, end_date, limit) ==
    LET r == GetColdChainFailures(items, product_id, severity, start_date,
                                  end_date, limit)
    IN  { r.items[i] : i \in 1..Len(r.items) }

\* the alerts GetAlerts returns from the items of the Event Store
Alerts(items, product_id, urgency_level, start_date, end_date, limit) ==
    LET r == GetStockLowEventsFiltered(items, product_id, urgency_level,
                                       start_date, end_date, limit)
    IN  { r.items[i] : i \in 1..Len(r.items) }

\* a record is of the product, of the level and within the bounds asked
\* for, the bounds included
Narrowed(x, level_attr, product_id, level, start_date, end_date) ==
    /\ product_id # None => x.product_id = product_id
    /\ level # None => x[level_attr] = level
    /\ start_date # NoDate => ~StrLess(x.timestamp, isoformat(start_date))
    /\ end_date # NoDate => ~StrLess(isoformat(end_date), x.timestamp)

AlertReturned(p) ==
    /\ pc[p] = "create_alert"
    /\ pc'[p] = "returned"

\* C28: every alert ProcessFailure returns references its cause: it
\* carries the id of the loss movement of the same execution and the id of
\* the originating failure event, and its current_stock and minimum_stock
\* are the values of the projection read after the decrement was
\* committed.
C28_AlertReferencesCause ==
    [][\A p \in Procs :
          AlertReturned(p) =>
             LET alert == result'[p].stock_low_event
                 x == local[p].movement.product_id
             IN  /\ alert.present
                 /\ alert.last_movement_id = local[p].movement.id
                 /\ alert.cold_chain_failure_id = event[p].id
                 /\ trace[p].wrote
                 /\ x \in DOMAIN readStore
                 /\ alert.current_stock =
                       ItemGet(readStore[x], "current_stock", 0)
                 /\ alert.minimum_stock =
                       ItemGet(readStore[x], "minimum_stock", 0)]_vars

\* C29: the Event Store is append-only: a failure event record, once
\* written, is never changed or removed, and processing another inbound
\* message that carries the same event id leaves the stored record as it
\* is.
C29_EventStoreAppendOnly ==
    [][\A k \in DOMAIN eventStore :
          ItemGet(eventStore[k], "event_type", "") = "FallaCadenaFrio"
          => /\ k \in DOMAIN eventStore'
             /\ eventStore'[k] = eventStore[k]]_vars

\* handler p commits its stock write in this step
StockCommitted(p) ==
    /\ pc[p] = "update_put"
    /\ pc'[p] = "is_low"

\* C30: the stock write is conditional on the projection being as it was
\* read: when another processor changed it in between, the write is not
\* applied (the cycle is retried with a freshly computed loss, and after a
\* fixed number of attempts the operation fails with ConcurrentUpdateError),
\* so the projection stays as the other processors wrote it.
C30_NoStaleCommit ==
    [][\A p \in Procs :
          (StockCommitted(p) /\ ~trace[p].by_creator) =>
             /\ StockOf(readStore, local[p].movement.product_id)
                  = local[p].current_stock
             /\ local[p].current_stock = trace[p].calc_stock]_vars

\* an attribute of the projection of product x, the value absent when the
\* item has none
Configured(table, x, attr, absent) ==
    IF x \in DOMAIN table THEN ItemGet(table[x], attr, absent) ELSE absent

\* C31: applying a loss changes only current_stock, last_updated and the
\* last-movement metadata of the product's projection; its minimum_stock
\* and its name are the same after the write as before.
C31_ConfiguredValuesKept ==
    [][\A p \in Procs :
          StockCommitted(p) =>
             LET x == local[p].movement.product_id
             IN  /\ Configured(readStore', x, "minimum_stock", -1)
                      = Configured(readStore, x, "minimum_stock", -1)
                 /\ Configured(readStore', x, "name", "")
                      = Configured(readStore, x, "name", "")]_vars

\* C32: the outcome of ProcessFailure carries the adjustment whenever a
\* loss movement was created and the stock decremented, with the quantity
\* and the fraction of that loss, whether or not it carries an alert; the
\* adjustment is absent only when no loss was applied.
C32_AdjustmentReported ==
    \A p \in Procs :
        (pc[p] = "returned" /\ result[p].success) =>
            /\ trace[p].wrote =>
                  /\ result[p].stock_adjustment.present
                  /\ result[p].stock_adjustment.quantity
                       = local[p].movement.quantity
                  /\ result[p].stock_adjustment.multiplier
                       = Multiplier(event[p].severity)
            /\ ~trace[p].wrote => ~result[p].stock_adjustment.present

\* C33: ProcessFailure never increases the current_stock of a product, in
\* any interleaving of concurrent processors: every write of the
\* projection's current_stock stores a value not above the one it
\* overwrites.
C33_StockNeverIncreases ==
    [][\A p \in Procs :
          (StockCommitted(p) /\ ~trace[p].by_creator) =>
             StockOf(readStore', local[p].movement.product_id)
               <= StockOf(readStore, local[p].movement.product_id)]_vars

\* the write of handler p's execution decreased the stock by the quantity
\* of its movement
DecrementApplied(p) ==
    LET x == local[p].movement.product_id
    IN  /\ trace[p].wrote
        /\ \E i \in 1..Len(writers[x]) :
              /\ writers[x][i].proc = p
              /\ writers[x][i].event_id = event[p].id
              /\ writers[x][i].before - writers[x][i].after
                   = local[p].movement.quantity

\* C34: whenever an execution of ProcessFailure has ended and its loss
\* movement of quantity q is recorded in the Event Store, the projection's
\* current_stock was decreased by exactly q for it: no movement stays
\* recorded whose decrement was not applied or was applied in part.
C34_MovementMatchesDecrement ==
    \A p \in Procs :
        ( /\ pc[p] = "returned"
          /\ local[p].movement.present
          /\ local[p].movement.id \in DOMAIN eventStore )
        => DecrementApplied(p)

\* C35: GetMovements(productId) returns only Movement records: a failure
\* event or any other record of the Event Store that carries the product
\* id and a timestamp is never part of its result.
C35_OnlyMovements ==
    MovementsCalled =>
        \A i \in 1..Len(qresult.items) :
            /\ "movement_type" \in DOMAIN qresult.items[i]
            /\ "event_type" \notin DOMAIN qresult.items[i]

\* C36: with a single processor and no other writer, a product created
\* with stock n >= 1 keeps stock >= 1 after any sequence of failure
\* events, and no write of the processor turns a positive stock into 0.
C36_PositiveStockKept ==
    \A x \in DOMAIN readStore :
        /\ created[x] >= 1 => CurrentStock(x) >= 1
        /\ \A i \in 1..Len(writers[x]) :
              writers[x][i].before >= 1 => writers[x][i].after >= 1

\* two critical failures in a row took a stock of 19 to 10 and then to 5
C36_Witness ==
    /\ "p1" \in DOMAIN readStore
    /\ created["p1"] = 19
    /\ Len(writers["p1"]) = 2
    /\ writers["p1"][1].severity = "critical"
    /\ writers["p1"][2].severity = "critical"
    /\ CurrentStock("p1") = 5

\* product x's projection is the item CreateProductCommand wrote
WrittenByCreate(x) ==
    /\ x \in DOMAIN readStore
    /\ "minimum_stock" \in DOMAIN readStore[x]

\* the Event Store holds a ProductCreated record of product x
AuditedCreation(x) ==
    \E k \in DOMAIN eventStore :
        /\ ItemGet(eventStore[k], "event_type", "") = "ProductCreated"
        /\ ItemGet(eventStore[k], "aggregate_id", "") = x

\* C37: CreateProduct is all-or-nothing across the two stores: when no
\* creation is under way, every projection written by CreateProduct has
\* its ProductCreated record in the Event Store; a creation whose audit
\* write failed reports the failure and leaves no projection created.
C37_CreateAllOrNothing ==
    cpc = "idle" =>
        \A x \in Products : WrittenByCreate(x) => AuditedCreation(x)

\* C38: after start-up the ingestion loop runs: in every ordering of the
\* consumer thread and the service initialisation the thread enters
\* start_consuming on the initialised handler; it does not end without
\* having entered it.
C38_ConsumerEntered ==
    consumer_thread # "returned"

====
